---------------------------- MODULE Spec2Model ----------------------------
(***************************************************************************)
(* A model of the playback orchestration and persistence core of the      *)
(* podcast widget: PlaybackStorage (resume positions in localStorage),    *)
(* FetchEpisodeProvider (cache, one retry, stale fallback), AudioEngine    *)
(* and PlayerController.                                                   *)
(*                                                                         *)
(* JavaScript values are modelled as follows.                              *)
(*   - an optional number (duration?: number, number | null) is a          *)
(*     sequence: << >> for undefined/null, <<n>> for the number n;         *)
(*   - a plain object is the sequence of its own properties in             *)
(*     Object.keys order, each [k |-> key, v |-> value];                   *)
(*   - a localStorage item is a record [kind, entries]: kind "missing"     *)
(*     when getItem returns null, kind "object" when the text is the JSON  *)
(*     of an object whose properties are, in text order, entries.          *)
(***************************************************************************)
EXTENDS Integers, Sequences, FiniteSets, TLC

VARIABLES
    positionsRaw,   \* localStorage[`${storagePrefix}PlaybackPositions`]
    maxItems,       \* PlaybackStorage.maxItems (config.maxStoredPositions)
    inserted,       \* history: the eligible saves of distinct identifiers made
                    \* into the empty store, in order, while nothing else was done
    onlyInserts,    \* history: TRUE while `inserted` is the whole story of the store
    last,           \* history: the last operation that ran, with its arguments
    cacheRaw,       \* localStorage[`${storagePrefix}EpisodesCache`]
    now,            \* Date.now()
    calls,          \* the getEpisodes() invocations: per call, where it stands
    episodes,       \* PlayerController.episodes
    currentIndex,   \* PlayerController.currentIndex (0-based, -1 for none)
    saveInterval,   \* PlayerController.saveInterval: <<handle>>, << >> for null
    timers,         \* the live window.setInterval handles
    engine,         \* the AudioEngine and its audio element
    stateRaw,       \* localStorage[`${storagePrefix}PlayerState`]: <<text>>, << >> when missing
    pendingPlays,   \* the controller play() calls awaiting engine.play(), oldest first:
                    \* "awaited" when the promise is the one play() returned to its
                    \* caller, "floating" when loadEpisode dropped it
    pendingLoads,   \* loadEpisodes() calls awaiting provider.getEpisodes()
    destroyed,      \* PlayerController.destroy() has run to its end
    speedRaw,       \* localStorage[`${storagePrefix}PlayerSpeed`]: <<text>>, << >> when missing
    listeners       \* EventEmitter.listeners: per event, its handlers in the order
                    \* they were added

storeVars == <<positionsRaw, maxItems, inserted, onlyInserts>>
providerVars == <<cacheRaw, now, calls>>
controllerVars == <<episodes, currentIndex, saveInterval, timers, engine, stateRaw,
                    pendingPlays, pendingLoads, destroyed, speedRaw, listeners>>

vars == <<positionsRaw, maxItems, inserted, onlyInserts, last, cacheRaw, now, calls,
          episodes, currentIndex, saveInterval, timers, engine, stateRaw,
          pendingPlays, pendingLoads, destroyed, speedRaw, listeners>>

---------------------------------------------------------------------------
(* Bounds of the model *)

\* largest maxStoredPositions a store is configured with
MaxCapacity == 2

\* Episode identifiers: two ordinary strings and two made only of decimal
\* digits (canonical array-index property names in JavaScript).
EpisodeIds == {"ep1", "ep2", "7", "12"}

\* Offsets handed to savePosition, around the 10 second threshold.
Positions == {5, 10, 11, 20}

\* Durations handed to savePosition: not passed, 0, and values around
\* position + 30.
Durations == {<< >>, <<0>>, <<30>>, <<41>>, <<42>>, <<100>>}

\* config.episodeCacheTTL, in clock ticks
CacheTTL == 2

\* the clock stops at MaxNow
MaxNow == 3

\* getEpisodes() invocations that may overlap
CallIds == {1, 2}

\* Episodes the endpoint serves.
Ep1 == [id |-> "ep1", audioUrl |-> "a.mp3", duration |-> <<100>>]
Ep7 == [id |-> "7", audioUrl |-> "b.mp3", duration |-> << >>]
Ep12 == [id |-> "12", audioUrl |-> "c.mp3", duration |-> <<0>>]

NonEmptyLists == {<<Ep1, Ep7, Ep12>>, <<Ep7>>}

\* What one fetch attempt can meet: fetch() rejecting, a non-2xx status,
\* a 2xx response whose body is not JSON, a 2xx response with JSON without
\* an episodes field, with an empty list, with a non-empty list.
Responses ==
    {[type |-> "network-error", status |-> 0, episodes |-> << >>],
     [type |-> "http", status |-> 500, episodes |-> << >>],
     [type |-> "http", status |-> 404, episodes |-> << >>],
     [type |-> "invalid-json", status |-> 200, episodes |-> << >>],
     [type |-> "no-episodes-field", status |-> 200, episodes |-> << >>],
     [type |-> "json", status |-> 200, episodes |-> << >>]}
    \cup {[type |-> "json", status |-> 200, episodes |-> l] : l \in NonEmptyLists}


\* the length of every media file, in seconds (audio.duration once loaded)
MediaEnd == 100

\* Offsets the audio element may stand at.
PlayTimes == {0, 11, 20, MediaEnd}

\* Lists provider.getEpisodes() may resolve with.
EpisodeLists == {<< >>} \cup NonEmptyLists

\* Indexes handed to loadEpisode and playEpisode, out of range ones included.
Indexes == -1..3

\* controller play() calls that may await engine.play() at once
MaxPendingPlays == 1

\* loadEpisodes() calls that may await the provider at once
MaxPendingLoads == 1

\* Handles window.setInterval may return.
TimerHandles == {1, 2}

---------------------------------------------------------------------------
(* Initial values: an empty localStorage, a new engine, a new controller *)

MissingItem == [kind |-> "missing", entries |-> << >>]

MissingCache == [kind |-> "missing", episodes |-> << >>, timestamp |-> 0]

IdleCall ==
    [pc |-> "idle", attempt |-> 0, requests |-> 0, attempts |-> << >>,
     result |-> << >>, error |-> << >>]

\* new AudioEngine(): no source, position 0, not playing, volume 1, rate 1,
\* native listeners attached.
NewEngine ==
    [src |-> << >>, currentTime |-> 0, isPlaying |-> FALSE, volume |-> 100,
     playbackRate |-> 100, destroyed |-> FALSE, duration |-> << >>]

StoreUntouched ==
    /\ positionsRaw = MissingItem
    /\ inserted = << >>
    /\ onlyInserts = TRUE

ProviderUntouched ==
    /\ cacheRaw = MissingCache
    /\ now = 0
    /\ calls = [c \in CallIds |-> IdleCall]

\* The events and handlers of the event channel that is followed.
EventNames == {"foo", "bar"}
Handlers == {"h1", "h2", "h3"}
Payloads == {1, 2}

\* new Map(): no event has a handler
NoListeners == [event \in EventNames |-> << >>]

ControllerUntouched ==
    /\ listeners = NoListeners
    /\ episodes = << >>
    /\ currentIndex = -1
    /\ saveInterval = << >>
    /\ timers = {}
    /\ engine = NewEngine
    /\ stateRaw = << >>
    /\ pendingPlays = << >>
    /\ pendingLoads = 0
    /\ destroyed = FALSE

---------------------------------------------------------------------------
(* JavaScript objects with Object.keys order *)

\* The integer a property name denotes when it is a canonical array index
\* ("7", "12"), -1 for every other property name.
ArrayIndex(k) ==
    CASE k = "7" -> 7
      [] k = "12" -> 12
      [] OTHER -> -1

IsArrayIndex(k) == ArrayIndex(k) >= 0

HasKey(obj, k) == \E i \in 1..Len(obj) : obj[i].k = k

Keys(obj) == [i \in 1..Len(obj) |-> obj[i].k]

KeySet(obj) == {obj[i].k : i \in 1..Len(obj)}

Lookup(obj, k) == obj[CHOOSE i \in 1..Len(obj) : obj[i].k = k].v

\* Number of own properties an array-index key k comes after.
IndexSlot(obj, k) ==
    Cardinality({i \in 1..Len(obj) :
                    IsArrayIndex(obj[i].k) /\ ArrayIndex(obj[i].k) < ArrayIndex(k)})

\* obj[k] = v. An existing property keeps its place; a new array-index key
\* goes among the array-index keys in ascending numeric order, which come
\* before every string key; a new string key goes last.
SetProperty(obj, k, v) ==
    IF HasKey(obj, k)
    THEN [i \in 1..Len(obj) |-> IF obj[i].k = k THEN [k |-> k, v |-> v] ELSE obj[i]]
    ELSE IF IsArrayIndex(k)
         THEN LET n == IndexSlot(obj, k)
              IN  SubSeq(obj, 1, n) \o <<[k |-> k, v |-> v]>> \o SubSeq(obj, n + 1, Len(obj))
         ELSE Append(obj, [k |-> k, v |-> v])

\* delete obj[k]
DeleteProperty(obj, k) == SelectSeq(obj, LAMBDA e : e.k # k)

\* JSON.stringify(obj): the properties in Object.keys order.
JSONStringify(obj) == [kind |-> "object", entries |-> obj]

\* JSON.parse(text) of an object: the properties are defined in text order.
RECURSIVE DefineAll(_, _)
DefineAll(obj, entries) ==
    IF entries = << >> THEN obj
    ELSE DefineAll(SetProperty(obj, Head(entries).k, Head(entries).v), Tail(entries))

JSONParse(raw) == DefineAll(<< >>, raw.entries)

---------------------------------------------------------------------------
(* PlaybackStorage *)

\* getPositions(): data ? JSON.parse(data) : {}
GetPositions(raw) == IF raw.kind = "missing" THEN << >> ELSE JSONParse(raw)

\* JavaScript truthiness of `duration`: undefined and 0 are falsy.
Truthy(duration) == duration # << >> /\ duration[1] # 0

\* shouldSave = duration ? position > 10 && position < duration - 30 : position > 10
ShouldSave(position, duration) ==
    IF Truthy(duration)
    THEN position > 10 /\ position < duration[1] - 30
    ELSE position > 10

EnforceMaxItems_KeepOneMore(positions, max) ==
    IF Len(positions) > max + 1
    THEN SubSeq(positions, Len(positions) - max, Len(positions))
    ELSE positions

\* if (keys.length > maxItems) delete positions[keys[i]] for i < keys.length - maxItems
EnforceMaxItems(positions, max) ==
    IF Len(positions) > max
    THEN SubSeq(positions, Len(positions) - max + 1, Len(positions))
    ELSE positions

\* The mapping savePosition writes when shouldSave holds.
SavedPositions(raw, episodeId, position, max) ==
    EnforceMaxItems(SetProperty(GetPositions(raw), episodeId, position), max)

\* localStorage after savePosition(episodeId, position, duration)
SavePositionRaw(raw, episodeId, position, duration, max) ==
    IF ShouldSave(position, duration)
    THEN JSONStringify(SavedPositions(raw, episodeId, position, max))
    ELSE raw

\* getPosition(episodeId): the stored offset, << >> for null
GetPosition(raw, episodeId) ==
    LET positions == GetPositions(raw)
    IN  IF HasKey(positions, episodeId) THEN <<Lookup(positions, episodeId)>> ELSE << >>

RemovePositionRaw_RewritesAlways(raw, episodeId) ==
    JSONStringify(DeleteProperty(GetPositions(raw), episodeId))

\* localStorage after removePosition(episodeId)
RemovePositionRaw(raw, episodeId) ==
    LET positions == GetPositions(raw)
    IN  IF HasKey(positions, episodeId)
        THEN JSONStringify(DeleteProperty(positions, episodeId))
        ELSE raw

CleanupPositionsRaw_KeepsLastStale(raw, currentEpisodeIds) ==
    LET positions == GetPositions(raw)
        kept == SelectSeq(positions, LAMBDA e : \/ e.k \in currentEpisodeIds
                                                \/ e = positions[Len(positions)])
    IN  IF kept # positions THEN JSONStringify(kept) ELSE raw

CleanupPositionsRaw_SkipsEmptyList(raw, currentEpisodeIds) ==
    LET positions == GetPositions(raw)
        kept == SelectSeq(positions, LAMBDA e : e.k \in currentEpisodeIds)
    IN  IF kept # positions /\ currentEpisodeIds # {} THEN JSONStringify(kept) ELSE raw

\* localStorage after cleanupPositions(currentEpisodeIds)
CleanupPositionsRaw(raw, currentEpisodeIds) ==
    LET positions == GetPositions(raw)
        kept == SelectSeq(positions, LAMBDA e : e.k \in currentEpisodeIds)
    IN  IF kept # positions THEN JSONStringify(kept) ELSE raw

\* The setItem calls cleanupPositions(currentEpisodeIds) makes: one when
\* `changed` was set, none otherwise.
CleanupWrites(raw, currentEpisodeIds) ==
    IF \E k \in KeySet(GetPositions(raw)) : k \notin currentEpisodeIds THEN 1 ELSE 0

---------------------------------------------------------------------------
(* The store on its own: any sequence of calls on a PlaybackStorage *)

\* History: the stored identifiers after a call, in the order of their
\* first insertion; `order` is that order before the call.
OrderAfter(order, raw) ==
    SelectSeq(order, LAMBDA k : HasKey(GetPositions(raw), k))

WithInserted(order, episodeId) ==
    IF \E i \in 1..Len(order) : order[i] = episodeId
    THEN order
    ELSE Append(order, episodeId)

StoreInit ==
    /\ StoreUntouched
    /\ maxItems \in 1..MaxCapacity
    /\ last = [op |-> "init", order |-> << >>]
    /\ ProviderUntouched
    /\ ControllerUntouched
    /\ speedRaw = << >>

SavePosition(episodeId, position, duration) ==
    LET before == GetPositions(positionsRaw)
        saves == ShouldSave(position, duration)
    IN  /\ positionsRaw' = SavePositionRaw(positionsRaw, episodeId, position, duration, maxItems)
        /\ last' = [op |-> "savePosition", id |-> episodeId, position |-> position,
                    duration |-> duration, wrote |-> saves,
                    order |-> IF saves
                              THEN OrderAfter(WithInserted(last.order, episodeId),
                                              positionsRaw')
                              ELSE last.order,
                    evicted |-> IF saves
                                THEN Len(SetProperty(before, episodeId, position))
                                       - Len(GetPositions(positionsRaw'))
                                ELSE 0]
        /\ IF onlyInserts /\ saves /\ ~HasKey(before, episodeId)
              /\ Len(inserted) <= maxItems
           THEN /\ inserted' = Append(inserted, [k |-> episodeId, v |-> position])
                /\ UNCHANGED onlyInserts
           ELSE /\ inserted' = << >>
                /\ onlyInserts' = FALSE
        /\ UNCHANGED <<maxItems, providerVars, controllerVars>>

RemovePosition(episodeId) ==
    /\ positionsRaw' = RemovePositionRaw(positionsRaw, episodeId)
    /\ last' = [op |-> "removePosition", id |-> episodeId,
                order |-> OrderAfter(last.order, positionsRaw'),
                wrote |-> HasKey(GetPositions(positionsRaw), episodeId)]
    /\ inserted' = << >>
    /\ onlyInserts' = FALSE
    /\ UNCHANGED <<maxItems, providerVars, controllerVars>>

CleanupPositions(currentEpisodeIds) ==
    /\ positionsRaw' = CleanupPositionsRaw(positionsRaw, currentEpisodeIds)
    /\ last' = [op |-> "cleanupPositions", ids |-> currentEpisodeIds,
                order |-> OrderAfter(last.order, positionsRaw'),
                wrote |-> positionsRaw' # positionsRaw,
                writes |-> CleanupWrites(positionsRaw, currentEpisodeIds)]
    /\ inserted' = << >>
    /\ onlyInserts' = FALSE
    /\ UNCHANGED <<maxItems, providerVars, controllerVars>>

StoreNext ==
    \/ \E id \in EpisodeIds, p \in Positions, d \in Durations : SavePosition(id, p, d)
    \/ \E id \in EpisodeIds : RemovePosition(id)
    \/ \E ids \in SUBSET EpisodeIds : CleanupPositions(ids)

StoreSpec == StoreInit /\ [][StoreNext]_vars

---------------------------------------------------------------------------
(* Claims about the store *)

\* The eligibility rule as the specification states it: with a duration
\* passed, offset > 10 and offset < duration - 30; with none, offset > 10.
StatedEligible(position, duration) ==
    IF duration = << >>
    THEN position > 10
    ELSE position > 10 /\ position < duration[1] - 30

\* The last savePosition call left its entry id -> position in the store.
LastSavePersisted ==
    /\ last.wrote
    /\ GetPosition(positionsRaw, last.id) = <<last.position>>

\* C1: savePosition(id, p, d) persists id -> p iff p > 10 and p < d - 30 for
\* every duration d passed (d = 0 included), and iff p > 10 when no duration
\* is passed.
C1_PersistsIffEligible ==
    last.op = "savePosition" =>
        (LastSavePersisted <=> StatedEligible(last.position, last.duration))

\* C2: starting from the empty store, after any sequence of savePosition,
\* removePosition and cleanupPositions calls the number of stored entries
\* never exceeds maxStoredPositions.
C2_CapacityBound == Len(GetPositions(positionsRaw)) <= maxItems

\* C2 witness: a save has just evicted an entry and the store is full.
C2_Witness ==
    /\ last.op = "savePosition"
    /\ last.evicted > 0
    /\ Len(GetPositions(positionsRaw)) = maxItems

\* C3: after N + 1 distinct identifiers were saved with eligible offsets into
\* the empty store configured for max N, the first-inserted identifier is
\* absent and the N most recently inserted are present with their offsets.
C3_OldestInsertedEvictedFirst ==
    (onlyInserts /\ Len(inserted) = maxItems + 1) =>
        /\ GetPosition(positionsRaw, inserted[1].k) = << >>
        /\ \A i \in 2..Len(inserted) :
              GetPosition(positionsRaw, inserted[i].k) = <<inserted[i].v>>

---------------------------------------------------------------------------
(* FetchEpisodeProvider *)

ReadCache_ExpiredAtTTLPlusOne(raw, t, ignoreExpiry) ==
    IF raw.kind = "missing" THEN << >>
    ELSE IF ~ignoreExpiry /\ t - raw.timestamp > CacheTTL THEN << >>
    ELSE IF raw.episodes = << >> THEN << >>
    ELSE <<raw.episodes>>

ReadCache_NoFallback(raw, t, ignoreExpiry) ==
    IF raw.kind = "missing" \/ ignoreExpiry THEN << >>
    ELSE IF t - raw.timestamp >= CacheTTL THEN << >>
    ELSE IF raw.episodes = << >> THEN << >>
    ELSE <<raw.episodes>>

ReadCache_AlwaysChecksExpiry(raw, t, ignoreExpiry) ==
    IF raw.kind = "missing" THEN << >>
    ELSE IF t - raw.timestamp >= CacheTTL THEN << >>
    ELSE IF raw.episodes = << >> THEN << >>
    ELSE <<raw.episodes>>

\* readCache(ignoreExpiry) at time t: <<episodes>>, or << >> for null
ReadCache(raw, t, ignoreExpiry) ==
    IF raw.kind = "missing" THEN << >>
    ELSE IF ~ignoreExpiry /\ t - raw.timestamp >= CacheTTL THEN << >>
    ELSE IF raw.episodes = << >> THEN << >>
    ELSE <<raw.episodes>>

\* writeCache(episodes) at time t
WriteCache(list, t) == [kind |-> "entry", episodes |-> list, timestamp |-> t]

\* res.ok
ResponseOk(response) == response.status >= 200 /\ response.status <= 299

\* The attempt throws: fetch() rejects, the status is not 2xx, or res.json() rejects.
AttemptFails(response) ==
    \/ response.type = "network-error"
    \/ ~ResponseOk(response)
    \/ response.type = "invalid-json"

\* The Error the catch clause stores in lastError.
ThrownError(response) ==
    IF response.type = "network-error" THEN [name |-> "network error", status |-> 0]
    ELSE IF ~ResponseOk(response) THEN [name |-> "API error", status |-> response.status]
    ELSE [name |-> "SyntaxError", status |-> 0]

CachesResult_AlsoEmpty(response) == TRUE

CachesResult_AnyList(response) == response.type = "json"

\* data.episodes && data.episodes.length > 0
CachesResult(response) == response.episodes # << >>

\* for (let attempt = 0; attempt < 2; attempt++)
MaxAttempts == 2

Retries_Twice(attempt) == attempt + 1 < MaxAttempts + 1

\* After attempt number `attempt` (0, 1) threw, the loop runs another one.
Retries(attempt) == attempt + 1 < MaxAttempts

StartedCall_JoinsPending(others, cached) ==
    IF cached # << >>
    THEN [IdleCall EXCEPT !.pc = "returned", !.result = cached[1]]
    ELSE IF \E d \in DOMAIN others : others[d].pc = "fetching"
         THEN [IdleCall EXCEPT !.pc = "fetching"]
         ELSE [IdleCall EXCEPT !.pc = "fetching", !.requests = 1]

\* A getEpisodes() call at its first await, given what readCache() returned:
\* finished on the fast path, or waiting for its own first fetch; the
\* other invocations play no part.
StartedCall(others, cached) ==
    IF cached # << >>
    THEN [IdleCall EXCEPT !.pc = "returned", !.result = cached[1]]
    ELSE [IdleCall EXCEPT !.pc = "fetching", !.requests = 1]

\* getEpisodes() up to its first await: the fast path, or the first fetch.
GetEpisodes(c) ==
    /\ calls[c].pc # "fetching"
    /\ calls' = [calls EXCEPT ![c] = StartedCall(calls, ReadCache(cacheRaw, now, FALSE))]
    /\ last' = [op |-> "getEpisodes", call |-> c]
    /\ UNCHANGED <<cacheRaw, now, storeVars, controllerVars>>

\* The pending fetch of call c settles with `response`, and getEpisodes runs
\* on to its next await or to its end.
FetchSettles(c, response) ==
    LET call == calls[c]
        seen == Append(call.attempts, response)
    IN  /\ call.pc = "fetching"
        /\ last' = [op |-> "fetchSettled", call |-> c, response |-> response,
                    cacheBefore |-> cacheRaw, requestsBefore |-> call.requests]
        /\ IF ~AttemptFails(response)
           THEN IF CachesResult(response)
                THEN /\ cacheRaw' = WriteCache(response.episodes, now)
                     /\ calls' = [calls EXCEPT ![c] =
                            [call EXCEPT !.pc = "returned", !.attempts = seen,
                                         !.result = response.episodes]]
                ELSE /\ UNCHANGED cacheRaw
                     /\ calls' = [calls EXCEPT ![c] =
                            [call EXCEPT !.pc = "returned", !.attempts = seen,
                                         !.result = << >>]]
           ELSE IF Retries(call.attempt)
                THEN /\ UNCHANGED cacheRaw
                     /\ calls' = [calls EXCEPT ![c] =
                            [call EXCEPT !.attempt = call.attempt + 1, !.attempts = seen,
                                         !.requests = call.requests + 1]]
                ELSE LET stale == ReadCache(cacheRaw, now, TRUE)
                     IN  /\ UNCHANGED cacheRaw
                         /\ calls' = [calls EXCEPT ![c] =
                                IF stale # << >>
                                THEN [call EXCEPT !.pc = "returned", !.attempts = seen,
                                                  !.result = stale[1]]
                                ELSE [call EXCEPT !.pc = "rejected", !.attempts = seen,
                                                  !.error = <<ThrownError(response)>>]]
        /\ UNCHANGED <<now, storeVars, controllerVars>>

\* Time passes.
Tick ==
    /\ now < MaxNow
    /\ now' = now + 1
    /\ last' = [op |-> "tick"]
    /\ UNCHANGED <<cacheRaw, calls, storeVars, controllerVars>>

ProviderInit ==
    /\ ProviderUntouched
    /\ last = [op |-> "init"]
    /\ StoreUntouched
    /\ maxItems = MaxCapacity
    /\ ControllerUntouched
    /\ speedRaw = << >>

ProviderNext ==
    \/ \E c \in CallIds : GetEpisodes(c)
    \/ \E c \in CallIds, response \in Responses : FetchSettles(c, response)
    \/ Tick

ProviderSpec == ProviderInit /\ [][ProviderNext]_vars

---------------------------------------------------------------------------
(* Claims about the provider *)

\* A 2xx response.
Status2xx(response) == response.status \in 200..299

\* The attempt failed: a transport error or a non-2xx status, as stated, and
\* also a 2xx response whose body does not parse.
FailedAttempt(response) ==
    \/ response.type = "network-error"
    \/ ~Status2xx(response)
    \/ response.type = "invalid-json"

Finished(call) == call.pc \in {"returned", "rejected"}

\* C4: without a fresh cache a failed first attempt is followed at once by
\* exactly one further attempt, whose result is returned when it succeeds;
\* a call issues one request when the first attempt succeeds, two when it
\* fails, never more than two.
C4_OneRetry ==
    \A c \in CallIds :
        LET call == calls[c]
        IN  /\ call.requests <= 2
            /\ call.requests = Len(call.attempts) + (IF call.pc = "fetching" THEN 1 ELSE 0)
            /\ (Len(call.attempts) >= 1 /\ FailedAttempt(call.attempts[1]))
                  => call.requests = 2
            /\ (Len(call.attempts) >= 1 /\ ~FailedAttempt(call.attempts[1]))
                  => (call.requests = 1 /\ Finished(call))
            /\ (Len(call.attempts) = 2 /\ ~FailedAttempt(call.attempts[2]))
                  => (call.pc = "returned" /\ call.result = call.attempts[2].episodes)
            /\ Len(call.attempts) = 2 => Finished(call)

\* C4 witness: a call whose first attempt failed and whose second attempt
\* returned a non-empty list.
C4_Witness ==
    \E c \in CallIds :
        /\ calls[c].pc = "returned"
        /\ Len(calls[c].attempts) = 2
        /\ calls[c].attempts[1].type = "network-error"
        /\ calls[c].attempts[2].episodes # << >>
        /\ calls[c].result = calls[c].attempts[2].episodes
        /\ calls[c].requests = 2

\* The second attempt of the call named by `last` has just failed after a
\* failed first attempt.
BothAttemptsFailed ==
    /\ last.op = "fetchSettled"
    /\ Len(calls[last.call].attempts) = 2
    /\ FailedAttempt(calls[last.call].attempts[1])
    /\ FailedAttempt(calls[last.call].attempts[2])

\* C5: when both attempts fail, a present cache entry is returned whatever
\* its age and the call does not reject; with no cache entry the call
\* rejects with the second attempt's error: the API error with the status
\* code for a non-2xx response, the network error for a transport failure.
C5_BothAttemptsFail ==
    BothAttemptsFailed =>
        LET call == calls[last.call]
            second == call.attempts[2]
        IN  IF last.cacheBefore.kind # "missing"
            THEN /\ call.pc = "returned"
                 /\ call.result = last.cacheBefore.episodes
                 /\ call.error = << >>
            ELSE /\ call.pc = "rejected"
                 /\ call.error # << >>
                 /\ second.type = "http"
                      => call.error = <<[name |-> "API error", status |-> second.status]>>
                 /\ second.type = "network-error"
                      => call.error = <<[name |-> "network error", status |-> 0]>>

\* C5 witness: both attempts failed and an expired cache entry was returned.
C5_Witness ==
    /\ BothAttemptsFailed
    /\ last.cacheBefore.kind = "entry"
    /\ now - last.cacheBefore.timestamp >= CacheTTL
    /\ calls[last.call].pc = "returned"
    /\ calls[last.call].result = last.cacheBefore.episodes

\* C6: getEpisodes returns the cached list with no network request whenever
\* an entry is present and now - timestamp < TTL; when now - timestamp >= TTL
\* (or no entry is present) the fast path returns nothing and a fetch is
\* attempted.
C6_FastPathIffFresh ==
    last.op = "getEpisodes" =>
        LET call == calls[last.call]
        IN  IF cacheRaw.kind # "missing" /\ now - cacheRaw.timestamp < CacheTTL
            THEN /\ call.pc = "returned"
                 /\ call.requests = 0
                 /\ call.result = cacheRaw.episodes
            ELSE /\ call.pc = "fetching"
                 /\ call.requests = 1

\* C6 witness: a call started when the entry's age was exactly the TTL went
\* to the network.
C6_Witness ==
    /\ last.op = "getEpisodes"
    /\ cacheRaw.kind = "entry"
    /\ now - cacheRaw.timestamp = CacheTTL
    /\ calls[last.call].pc = "fetching"

\* C7: a successful attempt with a non-empty list overwrites the cache entry
\* with that list and the current time and returns the list; a successful
\* attempt with an empty list returns the empty list, leaves the cache as it
\* was and is not retried.
C7_CacheWrittenOnNonEmptySuccess ==
    (last.op = "fetchSettled" /\ ~FailedAttempt(last.response)) =>
        LET call == calls[last.call]
        IN  IF last.response.episodes # << >>
            THEN /\ cacheRaw = [kind |-> "entry", episodes |-> last.response.episodes,
                                timestamp |-> now]
                 /\ call.pc = "returned"
                 /\ call.result = last.response.episodes
            ELSE /\ cacheRaw = last.cacheBefore
                 /\ call.pc = "returned"
                 /\ call.result = << >>
                 /\ call.requests = last.requestsBefore

\* C7 witness: an attempt succeeded with an empty list while a cache entry
\* existed, and the entry is still there.
C7_Witness ==
    /\ last.op = "fetchSettled"
    /\ last.response.type = "json"
    /\ last.response.episodes = << >>
    /\ last.cacheBefore.kind = "entry"
    /\ cacheRaw = last.cacheBefore
    /\ calls[last.call].result = << >>

---------------------------------------------------------------------------
(* Numbers and their decimal text. A number is a record: NaN, or a value h *)
(* in hundredths. A text is the sequence of its characters.                *)

NaN == [nan |-> TRUE, h |-> 0]
Num(h) == [nan |-> FALSE, h |-> h]

DigitChar(n) ==
    CASE n = 0 -> "0" [] n = 1 -> "1" [] n = 2 -> "2" [] n = 3 -> "3" [] n = 4 -> "4"
      [] n = 5 -> "5" [] n = 6 -> "6" [] n = 7 -> "7" [] n = 8 -> "8" [] n = 9 -> "9"

IsDigit(c) == c \in {"0", "1", "2", "3", "4", "5", "6", "7", "8", "9"}

DigitValue(c) ==
    CASE c = "0" -> 0 [] c = "1" -> 1 [] c = "2" -> 2 [] c = "3" -> 3 [] c = "4" -> 4
      [] c = "5" -> 5 [] c = "6" -> 6 [] c = "7" -> 7 [] c = "8" -> 8 [] c = "9" -> 9

RECURSIVE NatToString(_)
NatToString(n) ==
    IF n < 10 THEN <<DigitChar(n)>>
    ELSE NatToString(n \div 10) \o <<DigitChar(n % 10)>>

\* speed.toString(): shortest decimal text, no trailing zeros, no point for
\* a whole number.
NumberToString(x) ==
    IF x.nan THEN <<"N", "a", "N">>
    ELSE LET a == IF x.h < 0 THEN 0 - x.h ELSE x.h
             frac == a % 100
         IN  (IF x.h < 0 THEN <<"-">> ELSE << >>)
                 \o NatToString(a \div 100)
                 \o (IF frac = 0 THEN << >>
                     ELSE <<".", DigitChar(frac \div 10)>>
                             \o (IF frac % 10 = 0 THEN << >> ELSE <<DigitChar(frac % 10)>>))

\* The number of digits of chars from position i on.
RECURSIVE DigitRun(_, _)
DigitRun(chars, i) ==
    IF i <= Len(chars) /\ IsDigit(chars[i]) THEN 1 + DigitRun(chars, i + 1) ELSE 0

RECURSIVE DigitsValue(_)
DigitsValue(digits) ==
    IF digits = << >> THEN 0
    ELSE 10 * DigitsValue(SubSeq(digits, 1, Len(digits) - 1)) + DigitValue(digits[Len(digits)])

\* parseFloat(text): the longest leading sign, digits, point, digits; NaN
\* when that holds no digit. Up to two decimals are read.
ParseFloat(chars) ==
    LET neg == chars # << >> /\ chars[1] = "-"
        start == IF neg THEN 2 ELSE 1
        nw == DigitRun(chars, start)
        dot == start + nw <= Len(chars) /\ chars[start + nw] = "."
        nf == IF dot THEN DigitRun(chars, start + nw + 1) ELSE 0
        whole == DigitsValue(SubSeq(chars, start, start + nw - 1))
        tenths == IF nf >= 1 THEN DigitValue(chars[start + nw + 1]) ELSE 0
        hundredths == IF nf >= 2 THEN DigitValue(chars[start + nw + 2]) ELSE 0
        value == 100 * whole + 10 * tenths + hundredths
    IN  IF nw = 0 /\ nf = 0 THEN NaN
        ELSE Num(IF neg THEN 0 - value ELSE value)

---------------------------------------------------------------------------
(* PlayerStateStorage: the player state. The stored item is the JSON text  *)
(* of {currentEpisodeIndex, volume}, kept as the texts of its two numbers. *)

\* JSON.stringify(state): the index is a whole number, the volume is in
\* hundredths.
StateToJSON(index, volume) ==
    [kind |-> "json",
     currentEpisodeIndex |-> NumberToString(Num(100 * index)),
     volume |-> NumberToString(Num(volume))]

\* localStorage after saveState({currentEpisodeIndex, volume})
SavedState(index, volume) == <<StateToJSON(index, volume)>>

LoadState_WholeVolumes(raw, readable) ==
    IF ~readable \/ raw = << >> THEN << >>
    ELSE IF raw[1].kind # "json" THEN << >>
    ELSE <<[currentEpisodeIndex |-> ParseFloat(raw[1].currentEpisodeIndex).h \div 100,
            volume |-> 100 * (ParseFloat(raw[1].volume).h \div 100)]>>

\* loadState(): <<record>>, << >> for null (nothing stored, text that is not
\* JSON, getItem throwing)
LoadState(raw, readable) ==
    IF ~readable \/ raw = << >> THEN << >>
    ELSE IF raw[1].kind # "json" THEN << >>
         ELSE <<[currentEpisodeIndex |-> ParseFloat(raw[1].currentEpisodeIndex).h \div 100,
                 volume |-> ParseFloat(raw[1].volume).h]>>

---------------------------------------------------------------------------
(* AudioEngine. volume and playbackRate are in hundredths. *)

\* hasSrc
HasSrc(e) == e.src # << >>

\* load(url, startPosition): the new source starts at 0, or at startPosition
\* when that is given and positive.
EngineLoad(e, url, startPosition) ==
    [e EXCEPT !.src = <<url>>,
              !.duration = << >>,
              !.currentTime = IF startPosition # << >> /\ startPosition[1] > 0
                              THEN startPosition[1] ELSE 0]

\* pause(), up to the emit
EnginePaused(e) == [e EXCEPT !.isPlaying = FALSE]

\* stop()
EngineStopped(e) == [e EXCEPT !.isPlaying = FALSE, !.currentTime = 0]

\* destroy(): native listeners removed, source cleared, subscribers cleared
EngineDestroyed(e) == [e EXCEPT !.src = << >>, !.currentTime = 0, !.destroyed = TRUE]

---------------------------------------------------------------------------
(* PlayerController *)

InRange(eps, index) == index >= 0 /\ index < Len(eps)

\* this.episodes[index]
EpisodeAt(eps, index) == eps[index + 1]

\* saveCurrentPosition(): localStorage afterwards, and whether it threw
\* (episode is undefined when the index is past the list: episode.id throws).
SaveCurrentPosition(raw, eps, index, e, max) ==
    IF index < 0 \/ ~HasSrc(e) THEN [raw |-> raw, threw |-> FALSE]
    ELSE IF e.currentTime > 10
         THEN IF InRange(eps, index)
              THEN [raw |-> SavePositionRaw(raw, EpisodeAt(eps, index).id, e.currentTime,
                                            EpisodeAt(eps, index).duration, max),
                    threw |-> FALSE]
              ELSE [raw |-> raw, threw |-> TRUE]
         ELSE [raw |-> raw, threw |-> FALSE]

\* stopPositionSaving(): the live timers afterwards
StoppedTimers(live, held) == IF held # << >> THEN live \ {held[1]} ELSE live

\* The handle the next window.setInterval returns.
FreeHandles(live) == TimerHandles \ live
NewHandle(live) == CHOOSE h \in FreeHandles(live) : \A g \in FreeHandles(live) : h <= g

StartedTimers_KeepsHeld(live, held) == live \cup {NewHandle(live)}

\* startPositionSaving(): the live timers afterwards
StartedTimers(live, held) ==
    StoppedTimers(live, held) \cup {NewHandle(StoppedTimers(live, held))}

\* The engine 'pause' handler: saveCurrentPosition(), when still subscribed.
OnEnginePause(raw, eps, index, e, max) ==
    IF e.destroyed THEN [raw |-> raw, threw |-> FALSE]
    ELSE SaveCurrentPosition(raw, eps, index, e, max)

LoadedEngine_KeepsSource(e, raw, eps, index) ==
    IF HasSrc(e) THEN e
    ELSE EngineLoad(e, EpisodeAt(eps, index).audioUrl, GetPosition(raw, EpisodeAt(eps, index).id))

\* loadEpisode(index, false) with index in range: the engine afterwards
LoadedEngine(e, raw, eps, index) ==
    EngineLoad(e, EpisodeAt(eps, index).audioUrl, GetPosition(raw, EpisodeAt(eps, index).id))

\* loadEpisode(index, autoPlay) reaches `if (autoPlay) this.play()` with
\* autoPlay set: only past the bounds check.
RequestsPlay_Unchecked(eps, index, autoPlay) == autoPlay

RequestsPlay(eps, index, autoPlay) == InRange(eps, index) /\ autoPlay

\* The controller events loadEpisode(index, ...) emits, in order.
LoadEpisodeEvents(eps, index) ==
    IF InRange(eps, index) THEN <<"episode-change", "episode-display">> ELSE << >>

LoadEpisodeSteps_PlaysFirst(eps, index, autoPlay) ==
    IF ~InRange(eps, index) THEN << >>
    ELSE (IF autoPlay THEN <<"play">> ELSE << >>)
         \o <<"set currentIndex", "getPosition", "engine.load", "saveState",
              "emit episode-change", "emit episode-display">>

\* What loadEpisode(index, autoPlay) does, in order.
LoadEpisodeSteps(eps, index, autoPlay) ==
    IF ~InRange(eps, index) THEN << >>
    ELSE <<"set currentIndex", "getPosition", "engine.load", "saveState",
           "emit episode-change", "emit episode-display">>
         \o (IF autoPlay THEN <<"play">> ELSE << >>)

\* The engine still holds the 'ended' and 'pause' handlers the controller
\* registered in its constructor: nothing but engine.destroy() removes them.
HandlersAttached(e) == ~e.destroyed

\* seq without its i-th element
RemoveAt(seq, i) == SubSeq(seq, 1, i - 1) \o SubSeq(seq, i + 1, Len(seq))

\* loadEpisodes(): savedState && savedState.currentEpisodeIndex >= 0 &&
\* savedState.currentEpisodeIndex < this.episodes.length
RestoresIndex_FromSecond(state, list) ==
    /\ state # << >>
    /\ state[1].currentEpisodeIndex > 0
    /\ state[1].currentEpisodeIndex < Len(list)

RestoresIndex(state, list) ==
    /\ state # << >>
    /\ InRange(list, state[1].currentEpisodeIndex)

\* What loadEpisodes() does once the provider has resolved, in order.
LoadEpisodesSteps(state, list) ==
    <<"cleanupPositions", "emit episodes-loaded", "loadState">>
        \o (IF RestoresIndex(state, list) THEN <<"loadEpisode">> ELSE << >>)

ControllerFrame ==
    UNCHANGED <<providerVars, maxItems, inserted, onlyInserts, speedRaw, listeners>>

\* loadEpisodes() up to its await
LoadEpisodesWithin(most) ==
    /\ pendingLoads < most
    /\ pendingLoads' = pendingLoads + 1
    /\ last' = [op |-> "loadEpisodes", threw |-> FALSE]
    /\ UNCHANGED <<positionsRaw, episodes, currentIndex, saveInterval, timers, engine,
                   stateRaw, pendingPlays, destroyed>>
    /\ ControllerFrame

LoadEpisodes == LoadEpisodesWithin(MaxPendingLoads)

\* provider.getEpisodes() resolves with `list`; loadEpisodes() runs to its end.
ProviderResolves(list) ==
    LET pruned == CleanupPositionsRaw(positionsRaw, {list[i].id : i \in 1..Len(list)})
        savedState == LoadState(stateRaw, TRUE)
        restore == RestoresIndex(savedState, list)
    IN  /\ pendingLoads > 0
        /\ pendingLoads' = pendingLoads - 1
        /\ episodes' = list
        /\ positionsRaw' = pruned
        /\ IF restore
           THEN /\ currentIndex' = savedState[1].currentEpisodeIndex
                /\ engine' = LoadedEngine(engine, pruned, list, savedState[1].currentEpisodeIndex)
                /\ stateRaw' = SavedState(savedState[1].currentEpisodeIndex, engine.volume)
           ELSE UNCHANGED <<currentIndex, engine, stateRaw>>
        /\ last' = [op |-> "loadEpisodesResolved", threw |-> FALSE,
                    restored |-> restore, steps |-> LoadEpisodesSteps(savedState, list)]
        /\ UNCHANGED <<saveInterval, timers, pendingPlays, destroyed>>
        /\ ControllerFrame

\* provider.getEpisodes() rejects; loadEpisodes() rejects.
ProviderRejects ==
    /\ pendingLoads > 0
    /\ pendingLoads' = pendingLoads - 1
    /\ last' = [op |-> "loadEpisodesRejected", threw |-> FALSE]
    /\ UNCHANGED <<positionsRaw, episodes, currentIndex, saveInterval, timers, engine,
                   stateRaw, pendingPlays, destroyed>>
    /\ ControllerFrame

\* loadEpisode(index, autoPlay); playEpisode(index) is loadEpisode(index, true).
\* With autoPlay, play() runs up to its await of engine.play().  At most
\* `most` engine plays are followed at once.
LoadEpisodeWithin(index, autoPlay, most) ==
    /\ autoPlay => Len(pendingPlays) < most
    /\ IF InRange(episodes, index)
       THEN /\ currentIndex' = index
            /\ engine' = LoadedEngine(engine, positionsRaw, episodes, index)
            /\ stateRaw' = SavedState(index, engine.volume)
       ELSE UNCHANGED <<currentIndex, engine, stateRaw>>
    /\ pendingPlays' = IF RequestsPlay(episodes, index, autoPlay)
                       THEN Append(pendingPlays, "floating")
                       ELSE pendingPlays
    /\ last' = [op |-> "loadEpisode", threw |-> FALSE,
                loaded |-> InRange(episodes, index),
                events |-> LoadEpisodeEvents(episodes, index),
                steps |-> LoadEpisodeSteps(episodes, index, autoPlay)]
    /\ UNCHANGED <<positionsRaw, episodes, saveInterval, timers, pendingLoads, destroyed>>
    /\ ControllerFrame

LoadEpisode(index, autoPlay) == LoadEpisodeWithin(index, autoPlay, MaxPendingPlays)

\* play() up to its await of engine.play(); at most `most` engine plays are
\* followed at once.
PlayWithin(most) ==
    /\ Len(pendingPlays) < most
    /\ IF Len(episodes) = 0
       THEN UNCHANGED <<currentIndex, engine, stateRaw, pendingPlays>>
       ELSE IF currentIndex = -1
            THEN /\ currentIndex' = 0
                 /\ engine' = LoadedEngine(engine, positionsRaw, episodes, 0)
                 /\ stateRaw' = SavedState(0, engine.volume)
                 /\ pendingPlays' = Append(pendingPlays, "floating")
            ELSE /\ pendingPlays' = Append(pendingPlays, "awaited")
                 /\ UNCHANGED <<currentIndex, engine, stateRaw>>
    /\ last' = [op |-> "play", threw |-> FALSE]
    /\ UNCHANGED <<positionsRaw, episodes, saveInterval, timers, pendingLoads, destroyed>>
    /\ ControllerFrame

Play == PlayWithin(MaxPendingPlays)

\* engine.play() resolves: the engine is playing, and play() goes on to
\* startPositionSaving().
PlayResolves(i) ==
    /\ i \in 1..Len(pendingPlays)
    /\ FreeHandles(StoppedTimers(timers, saveInterval)) # {}
    /\ pendingPlays' = RemoveAt(pendingPlays, i)
    /\ engine' = [engine EXCEPT !.isPlaying = TRUE]
    /\ timers' = StartedTimers(timers, saveInterval)
    /\ saveInterval' = <<NewHandle(StoppedTimers(timers, saveInterval))>>
    /\ last' = [op |-> "playResolved", threw |-> FALSE]
    /\ UNCHANGED <<positionsRaw, episodes, currentIndex, stateRaw, pendingLoads, destroyed>>
    /\ ControllerFrame

PlayRejects_StartsTimer(i) ==
    /\ i \in 1..Len(pendingPlays)
    /\ FreeHandles(StoppedTimers(timers, saveInterval)) # {}
    /\ pendingPlays' = RemoveAt(pendingPlays, i)
    /\ engine' = [engine EXCEPT !.isPlaying = FALSE]
    /\ timers' = StartedTimers(timers, saveInterval)
    /\ saveInterval' = <<NewHandle(StoppedTimers(timers, saveInterval))>>
    /\ last' = [op |-> "playRejected", threw |-> pendingPlays[i] = "awaited"]
    /\ UNCHANGED <<positionsRaw, episodes, currentIndex, stateRaw, pendingLoads, destroyed>>
    /\ ControllerFrame

\* engine.play() rejects: not playing, and play() rejects; the rejection
\* reaches the caller of play() when the promise is the one it was handed.
PlayRejects(i) ==
    /\ i \in 1..Len(pendingPlays)
    /\ pendingPlays' = RemoveAt(pendingPlays, i)
    /\ engine' = [engine EXCEPT !.isPlaying = FALSE]
    /\ last' = [op |-> "playRejected", threw |-> pendingPlays[i] = "awaited"]
    /\ UNCHANGED <<positionsRaw, episodes, currentIndex, saveInterval, timers, stateRaw,
                   pendingLoads, destroyed>>
    /\ ControllerFrame

\* PlayerController.pause(): engine.pause(), whose 'pause' event runs the
\* handler, then saveCurrentPosition().
Pause ==
    LET paused == EnginePaused(engine)
        first == OnEnginePause(positionsRaw, episodes, currentIndex, paused, maxItems)
        second == SaveCurrentPosition(first.raw, episodes, currentIndex, paused, maxItems)
    IN  /\ engine' = paused
        /\ positionsRaw' = IF first.threw THEN first.raw ELSE second.raw
        /\ last' = [op |-> "pause", threw |-> first.threw \/ second.threw,
                    before |-> positionsRaw]
        /\ UNCHANGED <<episodes, currentIndex, saveInterval, timers, stateRaw,
                       pendingPlays, pendingLoads, destroyed>>
        /\ ControllerFrame

\* The owner of the engine calls engine.pause().
EnginePause ==
    LET paused == EnginePaused(engine)
        saved == OnEnginePause(positionsRaw, episodes, currentIndex, paused, maxItems)
    IN  /\ engine' = paused
        /\ positionsRaw' = saved.raw
        /\ last' = [op |-> "enginePause", threw |-> saved.threw, before |-> positionsRaw]
        /\ UNCHANGED <<episodes, currentIndex, saveInterval, timers, stateRaw,
                       pendingPlays, pendingLoads, destroyed>>
        /\ ControllerFrame

\* The owner of the engine calls engine.stop().
EngineStop ==
    /\ engine' = EngineStopped(engine)
    /\ last' = [op |-> "engineStop", threw |-> FALSE]
    /\ UNCHANGED <<positionsRaw, episodes, currentIndex, saveInterval, timers, stateRaw,
                   pendingPlays, pendingLoads, destroyed>>
    /\ ControllerFrame

\* The position of the audio element becomes t: playback goes on, or the
\* owner of the engine seeks.
TimeChanges(t) ==
    /\ HasSrc(engine)
    /\ t # engine.currentTime
    /\ engine' = [engine EXCEPT !.currentTime = t]
    /\ last' = [op |-> "timeChanged", threw |-> FALSE]
    /\ UNCHANGED <<positionsRaw, episodes, currentIndex, saveInterval, timers, stateRaw,
                   pendingPlays, pendingLoads, destroyed>>
    /\ ControllerFrame

\* The audio element reaches the end: the engine emits 'ended' and the
\* controller's handler runs.
Ended ==
    LET selected == currentIndex >= 0
        throws == selected /\ ~InRange(episodes, currentIndex)
    IN  /\ ~engine.destroyed
        /\ HasSrc(engine)
        /\ engine.currentTime = MediaEnd
        /\ engine' = [engine EXCEPT !.isPlaying = FALSE]
        /\ positionsRaw' = IF selected /\ ~throws
                           THEN RemovePositionRaw(positionsRaw,
                                                  EpisodeAt(episodes, currentIndex).id)
                           ELSE positionsRaw
        /\ IF throws
           THEN UNCHANGED <<timers, saveInterval>>
           ELSE /\ timers' = StoppedTimers(timers, saveInterval)
                /\ saveInterval' = << >>
        /\ last' = [op |-> "ended", threw |-> throws]
        /\ UNCHANGED <<episodes, currentIndex, stateRaw, pendingPlays, pendingLoads,
                       destroyed>>
        /\ ControllerFrame

\* A live interval timer fires: saveCurrentPosition().
TimerFires(h) ==
    LET saved == SaveCurrentPosition(positionsRaw, episodes, currentIndex, engine, maxItems)
    IN  /\ h \in timers
        /\ positionsRaw' = saved.raw
        /\ last' = [op |-> "timerTick", threw |-> saved.threw, before |-> positionsRaw]
        /\ UNCHANGED <<episodes, currentIndex, saveInterval, timers, engine, stateRaw,
                       pendingPlays, pendingLoads, destroyed>>
        /\ ControllerFrame

\* The window fires beforeunload while the controller's listener is attached.
BeforeUnload ==
    LET saved == SaveCurrentPosition(positionsRaw, episodes, currentIndex, engine, maxItems)
    IN  /\ ~destroyed
        /\ positionsRaw' = saved.raw
        /\ last' = [op |-> "beforeunload", threw |-> saved.threw, before |-> positionsRaw]
        /\ UNCHANGED <<episodes, currentIndex, saveInterval, timers, engine, stateRaw,
                       pendingPlays, pendingLoads, destroyed>>
        /\ ControllerFrame

\* PlayerController.destroy()
Destroy ==
    LET saved == SaveCurrentPosition(positionsRaw, episodes, currentIndex, engine, maxItems)
    IN  /\ timers' = StoppedTimers(timers, saveInterval)
        /\ saveInterval' = << >>
        /\ positionsRaw' = saved.raw
        /\ destroyed' = IF saved.threw THEN destroyed ELSE TRUE
        /\ last' = [op |-> "destroy", threw |-> saved.threw, before |-> positionsRaw,
                    engineBefore |-> engine]
        /\ UNCHANGED <<episodes, currentIndex, engine, stateRaw, pendingPlays, pendingLoads>>
        /\ ControllerFrame

\* The owner of the engine calls engine.destroy().
EngineDestroy ==
    /\ ~engine.destroyed
    /\ engine' = EngineDestroyed(engine)
    /\ last' = [op |-> "engineDestroy", threw |-> FALSE]
    /\ UNCHANGED <<positionsRaw, episodes, currentIndex, saveInterval, timers, stateRaw,
                   pendingPlays, pendingLoads, destroyed>>
    /\ ControllerFrame

ControllerInit ==
    /\ ControllerUntouched
    /\ speedRaw = << >>
    /\ positionsRaw = MissingItem
    /\ maxItems \in 1..MaxCapacity
    /\ inserted = << >>
    /\ onlyInserts = FALSE
    /\ last = [op |-> "init", threw |-> FALSE]
    /\ ProviderUntouched
    /\ speedRaw = << >>

ControllerNext ==
    \/ LoadEpisodes
    \/ \E list \in EpisodeLists : ProviderResolves(list)
    \/ ProviderRejects
    \/ \E index \in Indexes, autoPlay \in BOOLEAN : LoadEpisode(index, autoPlay)
    \/ Play
    \/ \E i \in 1..MaxPendingPlays : PlayResolves(i)
    \/ \E i \in 1..MaxPendingPlays : PlayRejects(i)
    \/ Pause
    \/ EnginePause
    \/ EngineStop
    \/ \E t \in PlayTimes : TimeChanges(t)
    \/ Ended
    \/ \E h \in TimerHandles : TimerFires(h)
    \/ BeforeUnload
    \/ Destroy
    \/ EngineDestroy

ControllerSpec == ControllerInit /\ [][ControllerNext]_vars

---------------------------------------------------------------------------
(* Claims about the controller *)

\* C8: right after PlayerController.pause() returns, after the engine is
\* stopped, after the engine's ended event is handled and after destroy()
\* returns, no periodic save timer of the controller is live.
C8_TimerCancelledOnPauseStopEndDestroy ==
    last.op \in {"pause", "engineStop", "ended", "destroy"} =>
        (timers = {} /\ saveInterval = << >>)

\* C9: when the engine emits ended while an item is selected (the current
\* index is not -1), right after the handler ran the item has no stored
\* position and no save timer is live.
C9_EndedRemovesPositionAndStopsTimer ==
    (last.op = "ended" /\ currentIndex >= 0) =>
        /\ timers = {}
        /\ saveInterval = << >>
        /\ InRange(episodes, currentIndex) =>
              GetPosition(positionsRaw, EpisodeAt(episodes, currentIndex).id) = << >>

\* The position-save operation has just run: in a timer tick, in the engine
\* pause handler, or in PlayerController.pause().
SaveOperationRan ==
    \/ last.op \in {"timerTick", "pause"}
    \/ last.op = "enginePause" /\ ~engine.destroyed

\* C10: the position-save operation changes nothing when no item is selected
\* or the engine has no source; otherwise it is the store's save called with
\* the current item's identifier, the engine's offset and the item's
\* duration, and after pause() the store holds the current offset for the
\* current item whenever that offset is eligible.
C10_SaveOperationDelegatesToStore ==
    SaveOperationRan =>
        IF currentIndex < 0 \/ ~HasSrc(engine)
        THEN positionsRaw = last.before
        ELSE /\ ~last.threw
             /\ InRange(episodes, currentIndex) =>
                  /\ positionsRaw =
                         SavePositionRaw(last.before, EpisodeAt(episodes, currentIndex).id,
                                         engine.currentTime,
                                         EpisodeAt(episodes, currentIndex).duration, maxItems)
                  /\ (/\ last.op = "pause"
                      /\ StatedEligible(engine.currentTime,
                                        EpisodeAt(episodes, currentIndex).duration))
                        => GetPosition(positionsRaw, EpisodeAt(episodes, currentIndex).id)
                             = <<engine.currentTime>>

\* C11: after loadEpisodes returned a list, an item was selected and played
\* successfully, a tick of the save interval while playing leaves under the
\* item's identifier the engine's offset at that tick, provided the offset is
\* greater than 10 and, if the item has a duration, less than duration - 30;
\* each later tick replaces it with the newer eligible offset.
C11_TickStoresEligibleOffset ==
    (/\ last.op = "timerTick"
     /\ engine.isPlaying
     /\ HasSrc(engine)
     /\ InRange(episodes, currentIndex)
     /\ StatedEligible(engine.currentTime, EpisodeAt(episodes, currentIndex).duration))
        => GetPosition(positionsRaw, EpisodeAt(episodes, currentIndex).id)
             = <<engine.currentTime>>

\* C12: destroy() stops the timer, performs exactly one final
\* eligibility-gated position save, detaches the controller's external
\* subscriptions (the window's beforeunload listener and the handlers it
\* registered on the engine), clears its own subscribers, and leaves the
\* engine as it was: source, position, playback state, not destroyed.
C12_DestroyReleasesControllerNotEngine ==
    last.op = "destroy" =>
        /\ timers = {}
        /\ saveInterval = << >>
        /\ ~last.threw
        /\ positionsRaw =
               SaveCurrentPosition(last.before, episodes, currentIndex, engine, maxItems).raw
        /\ destroyed
        /\ ~HandlersAttached(engine)
        /\ engine = last.engineBefore

\* The position of step x in the record of what an operation did, 0 when it
\* did not happen.
StepAt(steps, x) ==
    IF \E i \in 1..Len(steps) : steps[i] = x
    THEN CHOOSE i \in 1..Len(steps) : steps[i] = x
    ELSE 0

\* C13: in every loadEpisodes call, once the provider has resolved, the store
\* is pruned to the identifiers of the new list and episodes-loaded is emitted
\* before the saved player state is read; if the saved index i satisfies
\* 0 <= i < length of the new list, item i is loaded and no play is requested,
\* otherwise no item is loaded.
C13_LoadEpisodesPrunesThenRestores ==
    [][last'.op = "loadEpisodesResolved" =>
         LET ids == {episodes'[i].id : i \in 1..Len(episodes')}
             saved == LoadState(stateRaw, TRUE)
             validIndex == /\ saved # << >>
                           /\ 0 <= saved[1].currentEpisodeIndex
                           /\ saved[1].currentEpisodeIndex < Len(episodes')
         IN  /\ KeySet(GetPositions(positionsRaw')) = KeySet(GetPositions(positionsRaw)) \cap ids
             /\ \A id \in ids : GetPosition(positionsRaw', id) = GetPosition(positionsRaw, id)
             /\ StepAt(last'.steps, "cleanupPositions") > 0
             /\ StepAt(last'.steps, "cleanupPositions") < StepAt(last'.steps, "emit episodes-loaded")
             /\ StepAt(last'.steps, "emit episodes-loaded") < StepAt(last'.steps, "loadState")
             /\ pendingPlays' = pendingPlays
             /\ engine'.isPlaying = engine.isPlaying
             /\ UNCHANGED <<timers, saveInterval>>
             /\ IF validIndex
                THEN /\ StepAt(last'.steps, "loadEpisode") > StepAt(last'.steps, "loadState")
                     /\ currentIndex' = saved[1].currentEpisodeIndex
                     /\ engine'.src = <<EpisodeAt(episodes', currentIndex').audioUrl>>
                ELSE /\ StepAt(last'.steps, "loadEpisode") = 0
                     /\ UNCHANGED <<currentIndex, engine, stateRaw>>
      ]_vars

\* C13 witness: a loadEpisodes call has restored a saved index other than the
\* first, with an item of the previous store pruned away or not.
C13_Witness ==
    /\ last.op = "loadEpisodesResolved"
    /\ last.restored
    /\ currentIndex > 0
    /\ HasSrc(engine)

\* C14: loadEpisode(index, autoPlay) with index < 0 or index >= list length
\* changes nothing: current index, engine source and position, persisted
\* player state and resume-position store stay as they were, no event is
\* emitted, no play is requested and no timer is started.
C14_LoadEpisodeOutOfBoundsIsNoOp ==
    [][\A index \in Indexes, autoPlay \in BOOLEAN :
         (LoadEpisode(index, autoPlay) /\ (index < 0 \/ index >= Len(episodes))) =>
             /\ UNCHANGED <<currentIndex, engine, stateRaw, positionsRaw, episodes,
                            pendingPlays, timers, saveInterval>>
             /\ last'.events = << >>
      ]_vars

\* C14 witness: with an item selected and loaded, a loadEpisode call with an
\* index outside the list has just returned.
C14_Witness ==
    /\ last.op = "loadEpisode"
    /\ ~last.loaded
    /\ InRange(episodes, currentIndex)
    /\ HasSrc(engine)

\* C15: play() with an empty list does nothing; with a non-empty list and no
\* item selected it selects index 0 and requests its playback; with an item
\* selected it asks the engine to play; the save timer is started only when
\* an engine play has succeeded, a rejected engine play starts no timer, and
\* the rejection reaches the caller of play() that awaited it.
C15_PlayStartsTimerOnlyOnSuccess ==
    [][/\ (last'.op = "play" /\ Len(episodes) = 0) =>
             UNCHANGED <<engine, timers, saveInterval, currentIndex, stateRaw,
                         pendingPlays, positionsRaw, episodes>>
       /\ (last'.op = "play" /\ Len(episodes) > 0 /\ currentIndex = -1) =>
             /\ currentIndex' = 0
             /\ engine'.src = <<episodes[1].audioUrl>>
             /\ pendingPlays' = Append(pendingPlays, "floating")
             /\ UNCHANGED <<timers, saveInterval>>
       /\ (last'.op = "play" /\ Len(episodes) > 0 /\ currentIndex # -1) =>
             /\ pendingPlays' = Append(pendingPlays, "awaited")
             /\ UNCHANGED <<timers, saveInterval, currentIndex, engine>>
       /\ last'.op = "playResolved" =>
             /\ engine'.isPlaying
             /\ saveInterval' # << >>
             /\ timers' = {saveInterval'[1]}
       /\ last'.op = "playRejected" =>
             /\ UNCHANGED <<timers, saveInterval>>
             /\ ~engine'.isPlaying
             /\ (\A i \in 1..Len(pendingPlays) : pendingPlays[i] = "awaited") => last'.threw
       /\ timers' \ timers # {} => last'.op = "playResolved"
      ]_vars

\* C15 witness: an engine play requested by play() on a selected item was
\* rejected, the caller of play() got the rejection and no timer is live.
C15_Witness ==
    /\ last.op = "playRejected"
    /\ last.threw
    /\ InRange(episodes, currentIndex)
    /\ timers = {}
    /\ saveInterval = << >>

---------------------------------------------------------------------------
(* PlaybackStorage over a backing key of any content and a localStorage    *)
(* that may reject reads (getItem throws) and writes (setItem throws).     *)
(* Besides "missing" and "object", the item may be text that is not JSON   *)
(* ("invalid"), the JSON text null ("null") or a JSON number ("number").   *)

InvalidItem == [kind |-> "invalid", entries |-> << >>]
NullItem == [kind |-> "null", entries |-> << >>]
NumberItem == [kind |-> "number", entries |-> << >>]

\* What getPositions() returns: {} when getItem or JSON.parse throws or the
\* item is missing, else whatever JSON.parse returns, object or not.
GetPositionsValue(raw, readable) ==
    IF ~readable \/ raw.kind \in {"missing", "invalid"}
    THEN [type |-> "object", obj |-> << >>]
    ELSE IF raw.kind = "object"
         THEN [type |-> "object", obj |-> JSONParse(raw)]
         ELSE [type |-> raw.kind, obj |-> << >>]

\* The item as the operations see it when getPositions() returned an object.
ItemRead(raw, readable) ==
    IF ~readable \/ raw.kind \in {"missing", "invalid"} THEN MissingItem ELSE raw

\* getPosition(episodeId): `episodeId in positions` is outside any try and
\* throws a TypeError when positions is null or a number.
GetPositionThrows(raw, readable) == GetPositionsValue(raw, readable).type # "object"

GetPositionResult(raw, episodeId, readable) ==
    IF GetPositionThrows(raw, readable) THEN << >>
    ELSE GetPosition(ItemRead(raw, readable), episodeId)

\* savePosition: everything is inside try/catch; on a non-object the
\* assignment throws and is swallowed, on a rejected write nothing changes.
SavePositionOver(raw, episodeId, position, duration, max, readable, writable) ==
    IF GetPositionsValue(raw, readable).type # "object" THEN raw
    ELSE IF ~ShouldSave(position, duration) \/ ~writable THEN raw
         ELSE SavePositionRaw(ItemRead(raw, readable), episodeId, position, duration, max)

\* removePosition: `in` on a non-object throws inside the try.
RemovePositionOver(raw, episodeId, readable, writable) ==
    IF GetPositionsValue(raw, readable).type # "object" THEN raw
    ELSE IF ~HasKey(GetPositionsValue(raw, readable).obj, episodeId) \/ ~writable THEN raw
         ELSE RemovePositionRaw(ItemRead(raw, readable), episodeId)

\* cleanupPositions: Object.keys(null) throws inside the try, Object.keys of
\* a number is empty.
CleanupPositionsOver(raw, currentEpisodeIds, readable, writable) ==
    IF GetPositionsValue(raw, readable).type # "object" THEN raw
    ELSE IF KeySet(GetPositionsValue(raw, readable).obj) \subseteq currentEpisodeIds
            \/ ~writable
         THEN raw
         ELSE CleanupPositionsRaw(ItemRead(raw, readable), currentEpisodeIds)

FaultFrame == UNCHANGED <<maxItems, inserted, onlyInserts, providerVars, controllerVars>>

GetPositionsCall(readable) ==
    /\ last' = [op |-> "getPositions", threw |-> FALSE, read |-> TRUE,
                empty |-> GetPositionsValue(positionsRaw, readable)
                            = [type |-> "object", obj |-> << >>],
                faulty |-> ~readable \/ positionsRaw.kind # "object"]
    /\ UNCHANGED positionsRaw
    /\ FaultFrame

GetPositionCall(episodeId, readable) ==
    /\ last' = [op |-> "getPosition", threw |-> GetPositionThrows(positionsRaw, readable),
                read |-> TRUE,
                empty |-> /\ ~GetPositionThrows(positionsRaw, readable)
                          /\ GetPositionResult(positionsRaw, episodeId, readable) = << >>,
                faulty |-> ~readable \/ positionsRaw.kind # "object"]
    /\ UNCHANGED positionsRaw
    /\ FaultFrame

SavePositionCall(episodeId, position, duration, readable, writable) ==
    /\ positionsRaw' = SavePositionOver(positionsRaw, episodeId, position, duration,
                                        maxItems, readable, writable)
    /\ last' = [op |-> "savePosition", threw |-> FALSE, read |-> FALSE, empty |-> FALSE,
                faulty |-> ~readable \/ ~writable \/ positionsRaw.kind # "object"]
    /\ FaultFrame

RemovePositionCall(episodeId, readable, writable) ==
    /\ positionsRaw' = RemovePositionOver(positionsRaw, episodeId, readable, writable)
    /\ last' = [op |-> "removePosition", threw |-> FALSE, read |-> FALSE, empty |-> FALSE,
                faulty |-> ~readable \/ ~writable \/ positionsRaw.kind # "object"]
    /\ FaultFrame

CleanupPositionsCall(currentEpisodeIds, readable, writable) ==
    /\ positionsRaw' = CleanupPositionsOver(positionsRaw, currentEpisodeIds, readable, writable)
    /\ last' = [op |-> "cleanupPositions", threw |-> FALSE, read |-> FALSE, empty |-> FALSE,
                faulty |-> ~readable \/ ~writable \/ positionsRaw.kind # "object"]
    /\ FaultFrame

FaultInit ==
    /\ positionsRaw \in {MissingItem, InvalidItem, NullItem, NumberItem}
    /\ inserted = << >>
    /\ onlyInserts = FALSE
    /\ maxItems \in 1..MaxCapacity
    /\ last = [op |-> "init", threw |-> FALSE, read |-> FALSE, empty |-> FALSE,
               faulty |-> FALSE]
    /\ ProviderUntouched
    /\ ControllerUntouched
    /\ speedRaw = << >>

FaultNext ==
    \/ \E readable \in BOOLEAN : GetPositionsCall(readable)
    \/ \E id \in EpisodeIds, readable \in BOOLEAN : GetPositionCall(id, readable)
    \/ \E id \in EpisodeIds, p \in Positions, d \in Durations, readable, writable \in BOOLEAN :
          SavePositionCall(id, p, d, readable, writable)
    \/ \E id \in EpisodeIds, readable, writable \in BOOLEAN :
          RemovePositionCall(id, readable, writable)
    \/ \E ids \in SUBSET EpisodeIds, readable, writable \in BOOLEAN :
          CleanupPositionsCall(ids, readable, writable)

FaultSpec == FaultInit /\ [][FaultNext]_vars

\* C16: no operation of the store throws, whatever the backing key holds
\* (missing, not JSON, JSON that is not an object) and whether or not the
\* storage layer rejects reads or writes; a read over a faulty key or a
\* rejecting storage behaves as if the store were empty.
C16_StoreNeverThrows ==
    /\ ~last.threw
    /\ (last.read /\ last.faulty) => last.empty

---------------------------------------------------------------------------
(* More claims about the store *)

\* C17: a savePosition call whose offset fails the eligibility rule (with a
\* duration passed: offset > 10 and offset < duration - 30; with none:
\* offset > 10) performs no write and leaves the stored mapping unchanged, an
\* entry already stored for the same identifier included.
C17_IneligibleSaveChangesNothing ==
    [][(/\ last'.op = "savePosition"
        /\ ~StatedEligible(last'.position, last'.duration)) =>
            /\ ~last'.wrote
            /\ positionsRaw' = positionsRaw
      ]_vars

\* C18: after cleanupPositions(validIds) the stored mapping is exactly the
\* previous mapping restricted to the identifiers in validIds, surviving
\* offsets unchanged; the backing store is rewritten once if at least one
\* entry was deleted and not written at all otherwise.
C18_CleanupRestrictsToValidIds ==
    [][last'.op = "cleanupPositions" =>
         LET before == GetPositions(positionsRaw)
             after == GetPositions(positionsRaw')
         IN  /\ KeySet(after) = KeySet(before) \cap last'.ids
             /\ \A k \in KeySet(after) : Lookup(after, k) = Lookup(before, k)
             /\ IF KeySet(before) \subseteq last'.ids
                THEN last'.writes = 0 /\ positionsRaw' = positionsRaw
                ELSE last'.writes = 1
      ]_vars

\* C18 witness: a cleanup has just deleted an entry and kept another.
C18_Witness ==
    /\ last.op = "cleanupPositions"
    /\ last.writes = 1
    /\ GetPositions(positionsRaw) # << >>

\* C19: removePosition(id) deletes id's entry and leaves every other entry
\* unchanged; when id is absent it performs no write and leaves the store
\* unchanged, so removing twice has the same result as removing once.
C19_RemoveDeletesOnlyItsEntry ==
    [][last'.op = "removePosition" =>
         LET before == GetPositions(positionsRaw)
             after == GetPositions(positionsRaw')
         IN  /\ KeySet(after) = KeySet(before) \ {last'.id}
             /\ \A k \in KeySet(after) : Lookup(after, k) = Lookup(before, k)
             /\ last'.id \notin KeySet(before) =>
                   (~last'.wrote /\ positionsRaw' = positionsRaw)
             /\ RemovePositionRaw(positionsRaw', last'.id) = positionsRaw'
      ]_vars

\* C19 witness: a removal has just deleted an entry and another entry is
\* still stored.
C19_Witness ==
    /\ last.op = "removePosition"
    /\ last.wrote
    /\ GetPositions(positionsRaw) # << >>

---------------------------------------------------------------------------
(* PlayerStateStorage: the speed preference *)

\* speed >= 0.5 && speed <= 3, in hundredths
MinSpeed == 50
MaxSpeed == 300

\* Speeds handed to saveSpeed.
Speeds ==
    {Num(h) : h \in {-100, 0, 1, 5, 25, 30, 49, 50, 51, 75, 100, 125, 150, 175, 200,
                      250, 275, 299, 300, 301, 310, 350, 400, 500, 1000}}
        \cup {NaN}

\* Texts found under the key that saveSpeed did not write: the empty text,
\* text with no number in it, text that begins with a number.
ForeignTexts ==
    {<< >>, <<"a", "b", "c">>, <<"n", "u", "l", "l">>, <<"1", ".", "5", "x">>,
     <<"4", "x">>, <<".", "5">>, <<"-", "1">>, <<"3">>, <<"3", ".", "0", "1">>}

InRangeSpeed_Exclusive(speed) == ~speed.nan /\ speed.h > MinSpeed /\ speed.h < MaxSpeed

\* speed >= 0.5 && speed <= 3 (false for NaN)
InRangeSpeed(speed) == ~speed.nan /\ speed.h >= MinSpeed /\ speed.h <= MaxSpeed

\* localStorage after saveSpeed(speed)
SaveSpeedRaw(raw, speed, writable) ==
    IF writable THEN <<NumberToString(speed)>> ELSE raw

\* loadSpeed(): <<number>>, << >> for null
LoadSpeedResult(raw, readable) ==
    IF ~readable \/ raw = << >> \/ raw[1] = << >> THEN << >>
    ELSE IF InRangeSpeed(ParseFloat(raw[1])) THEN <<ParseFloat(raw[1])>> ELSE << >>

SpeedFrame ==
    UNCHANGED <<storeVars, providerVars, episodes, currentIndex, saveInterval, timers,
                engine, stateRaw, pendingPlays, pendingLoads, destroyed, listeners>>

SaveSpeed(speed, writable) ==
    /\ speedRaw' = SaveSpeedRaw(speedRaw, speed, writable)
    /\ last' = [op |-> "saveSpeed", threw |-> FALSE, result |-> << >>,
                saved |-> IF writable THEN <<speed>> ELSE last.saved,
                readable |-> TRUE]
    /\ SpeedFrame

LoadSpeed(readable) ==
    /\ last' = [op |-> "loadSpeed", threw |-> FALSE,
                result |-> LoadSpeedResult(speedRaw, readable),
                saved |-> last.saved, readable |-> readable]
    /\ UNCHANGED speedRaw
    /\ SpeedFrame

SpeedInit ==
    /\ speedRaw \in {<< >>} \cup {<<text>> : text \in ForeignTexts}
    /\ last = [op |-> "init", threw |-> FALSE, result |-> << >>, saved |-> << >>,
               readable |-> TRUE]
    /\ StoreUntouched
    /\ maxItems = MaxCapacity
    /\ ProviderUntouched
    /\ ControllerUntouched

SpeedNext ==
    \/ \E speed \in Speeds, writable \in BOOLEAN : SaveSpeed(speed, writable)
    \/ \E readable \in BOOLEAN : LoadSpeed(readable)

SpeedSpec == SpeedInit /\ [][SpeedNext]_vars

\* C20: saveSpeed(x) writes every x without validation; a following
\* loadSpeed() returns x iff 0.5 <= x <= 3.0, both bounds included, and absent
\* otherwise; loadSpeed() returns absent, without throwing, when nothing is
\* stored or the stored text does not parse as a number.
C20_SpeedValidatedAtReadOnly ==
    /\ ~last.threw
    /\ last.saved # << >> => speedRaw = <<NumberToString(last.saved[1])>>
    /\ (last.op = "loadSpeed" /\ last.readable /\ last.saved # << >>) =>
          last.result = IF /\ ~last.saved[1].nan
                           /\ 50 <= last.saved[1].h
                           /\ last.saved[1].h <= 300
                        THEN last.saved
                        ELSE << >>
    /\ (/\ last.op = "loadSpeed"
        /\ \/ speedRaw = << >>
           \/ ~last.readable
           \/ \A i \in 1..Len(speedRaw[1]) : ~IsDigit(speedRaw[1][i])) =>
          last.result = << >>

\* C20 witness: the upper bound 3.0 was saved and has just been read back.
C20_Witness ==
    /\ last.op = "loadSpeed"
    /\ last.saved = <<Num(300)>>
    /\ last.result = <<Num(300)>>

---------------------------------------------------------------------------
(* Preferences across sessions: setVolume, setSpeed, and the construction  *)
(* of a controller over a new engine and the localStorage of the session   *)
(* before (a page reload).                                                 *)

\* Volumes handed to setVolume, in hundredths: below, inside and above [0,1].
Volumes == {-50, 0, 50, 100, 150}

\* Speeds handed to setSpeed, in hundredths: around and at the ends of
\* [0.5, 3.0].
Rates == {30, 50, 150, 300, 400}

ClampVolume_NoUpperBound(v) == IF v < 0 THEN 0 ELSE v

\* The volume setter of the engine: Math.max(0, Math.min(1, v))
ClampVolume(v) == IF v < 0 THEN 0 ELSE IF v > 100 THEN 100 ELSE v

\* The volume setVolume(v) hands to saveState: v itself.
StoredVolume(v) == v

\* setVolume(v)
SetVolume(v) ==
    /\ engine' = [engine EXCEPT !.volume = ClampVolume(v)]
    /\ stateRaw' = SavedState(currentIndex, StoredVolume(v))
    /\ last' = [op |-> "setVolume", threw |-> FALSE, v |-> v]
    /\ UNCHANGED <<positionsRaw, episodes, currentIndex, saveInterval, timers,
                   pendingPlays, pendingLoads, destroyed>>
    /\ ControllerFrame

\* setSpeed(speed)
SetSpeed(speed) ==
    /\ engine' = [engine EXCEPT !.playbackRate = speed]
    /\ speedRaw' = SaveSpeedRaw(speedRaw, Num(speed), TRUE)
    /\ last' = [op |-> "setSpeed", threw |-> FALSE, v |-> speed]
    /\ UNCHANGED <<positionsRaw, episodes, currentIndex, saveInterval, timers, stateRaw,
                   pendingPlays, pendingLoads, destroyed>>
    /\ UNCHANGED <<providerVars, maxItems, inserted, onlyInserts, listeners>>

RestoredEngine_AnySpeed(e, speedItem, stateItem) ==
    [e EXCEPT !.playbackRate = IF speedItem # << >> /\ ~ParseFloat(speedItem[1]).nan
                                THEN ParseFloat(speedItem[1]).h
                                ELSE e.playbackRate,
              !.volume = IF LoadState(stateItem, TRUE) # << >>
                         THEN ClampVolume(LoadState(stateItem, TRUE)[1].volume)
                         ELSE e.volume]

\* The engine after the constructor restored the speed preference and the
\* saved volume into it.
RestoredEngine(e, speedItem, stateItem) ==
    [e EXCEPT !.playbackRate = IF LoadSpeedResult(speedItem, TRUE) # << >>
                                THEN LoadSpeedResult(speedItem, TRUE)[1].h
                                ELSE e.playbackRate,
              !.volume = IF LoadState(stateItem, TRUE) # << >>
                         THEN ClampVolume(LoadState(stateItem, TRUE)[1].volume)
                         ELSE e.volume]

\* The page is loaded anew: a new engine, and new PlayerController(engine,
\* provider, config) over the localStorage left behind.
Construct ==
    /\ engine' = RestoredEngine(NewEngine, speedRaw, stateRaw)
    /\ episodes' = << >>
    /\ currentIndex' = -1
    /\ saveInterval' = << >>
    /\ timers' = {}
    /\ pendingPlays' = << >>
    /\ pendingLoads' = 0
    /\ destroyed' = FALSE
    /\ last' = [op |-> "construct", threw |-> FALSE, v |-> 0]
    /\ UNCHANGED <<positionsRaw, stateRaw>>
    /\ ControllerFrame

SessionInit ==
    /\ ControllerUntouched
    /\ speedRaw = << >>
    /\ StoreUntouched
    /\ maxItems = MaxCapacity
    /\ last = [op |-> "init", threw |-> FALSE, v |-> 0]
    /\ ProviderUntouched

SessionNext ==
    \/ \E v \in Volumes : SetVolume(v)
    \/ \E speed \in Rates : SetSpeed(speed)
    \/ Construct
    \/ LoadEpisodes
    \/ \E list \in EpisodeLists : ProviderResolves(list)
    \/ \E index \in Indexes, autoPlay \in BOOLEAN : LoadEpisode(index, autoPlay)
    \/ Play
    \/ \E i \in 1..MaxPendingPlays : PlayResolves(i)
    \/ \E i \in 1..MaxPendingPlays : PlayRejects(i)

SessionSpec == SessionInit /\ [][SessionNext]_vars

\* C21: after any sequence of setVolume(v) (any numeric v), loadEpisode and
\* play calls, the volume of the persisted player state record is within
\* [0, 1].
C21_StoredVolumeInUnitRange ==
    LoadState(stateRaw, TRUE) # << >> =>
        /\ 0 <= LoadState(stateRaw, TRUE)[1].volume
        /\ LoadState(stateRaw, TRUE)[1].volume <= 100

\* C22: setSpeed(s) sets the engine's playback rate to s and writes s to the
\* speed store in the same call; setVolume(v) sets the engine's volume (to v
\* brought into [0, 1]) and writes in the same call a player-state record
\* holding the controller's current index and, for v in [0, 1], the volume v;
\* neither changes the current index, the item list or the resume-position
\* store.
C22_SetSpeedAndVolumePersistAtOnce ==
    [][/\ last'.op = "setSpeed" =>
             /\ engine'.playbackRate = last'.v
             /\ speedRaw' = <<NumberToString(Num(last'.v))>>
             /\ UNCHANGED <<currentIndex, episodes, positionsRaw>>
       /\ last'.op = "setVolume" =>
             /\ engine'.volume = IF last'.v < 0 THEN 0
                                 ELSE IF last'.v > 100 THEN 100 ELSE last'.v
             /\ stateRaw' # << >>
             /\ LoadState(stateRaw', TRUE)[1].currentEpisodeIndex = currentIndex
             /\ (0 <= last'.v /\ last'.v <= 100) =>
                   LoadState(stateRaw', TRUE)[1].volume = last'.v
             /\ UNCHANGED <<currentIndex, episodes, positionsRaw>>
      ]_vars

\* C22 witness: with an item selected, setVolume has just stored the index
\* and a volume above the engine's range.
C22_Witness ==
    /\ last.op = "setVolume"
    /\ last.v > 100
    /\ currentIndex >= 0
    /\ engine.volume = 100

\* C23: a controller constructed over storage in which setSpeed(x) was the
\* last speed write sets the engine's playback rate to x iff 0.5 <= x <= 3.0
\* and otherwise leaves the rate of the engine as it was; it sets the
\* engine's volume from the saved player state when a record exists and
\* leaves it as it was otherwise.
C23_ConstructorRestoresPreferences ==
    last.op = "construct" =>
        /\ \A x \in Rates :
              speedRaw = <<NumberToString(Num(x))>> =>
                  engine.playbackRate = IF 50 <= x /\ x <= 300 THEN x
                                        ELSE NewEngine.playbackRate
        /\ speedRaw = << >> => engine.playbackRate = NewEngine.playbackRate
        /\ \A i \in Indexes, v \in Volumes :
              stateRaw = SavedState(i, v) =>
                  engine.volume = IF v < 0 THEN 0 ELSE IF v > 100 THEN 100 ELSE v
        /\ stateRaw = << >> => engine.volume = NewEngine.volume

\* C23 witness: a controller was constructed over a stored speed of 3.0 and
\* a stored volume of 0.5, and the engine has both.
C23_Witness ==
    /\ last.op = "construct"
    /\ speedRaw = <<NumberToString(Num(300))>>
    /\ engine.playbackRate = 300
    /\ stateRaw # << >>
    /\ engine.volume = 50

----------------------------------------------------------------------------
\* PlayerStateStorage on its own: saveState and loadState over an item that
\* starts missing, holding text JSON.parse rejects, or holding the text null.

\* Stored volumes, in hundredths.
StateVolumes == {0, 5, 25, 50, 70, 90, 100}

StateRecords == [currentEpisodeIndex : Indexes, volume : StateVolumes]

StateFrame ==
    UNCHANGED <<storeVars, providerVars, episodes, currentIndex, saveInterval, timers,
                engine, speedRaw, pendingPlays, pendingLoads, destroyed, listeners>>

\* saveState(state): setItem of the JSON text; a throwing setItem is swallowed.
SaveState(state, writable) ==
    /\ stateRaw' = IF writable
                   THEN SavedState(state.currentEpisodeIndex, state.volume)
                   ELSE stateRaw
    /\ last' = [op |-> "saveState", threw |-> FALSE, result |-> << >>,
                saved |-> IF writable THEN <<state>> ELSE last.saved,
                readable |-> TRUE]
    /\ StateFrame

\* loadState(): the parsed item, or null.
LoadStateCall(readable) ==
    /\ last' = [op |-> "loadState", threw |-> FALSE,
                result |-> LoadState(stateRaw, readable),
                saved |-> last.saved, readable |-> readable]
    /\ UNCHANGED stateRaw
    /\ StateFrame

StateInit ==
    /\ stateRaw \in {<< >>, <<InvalidItem>>, <<NullItem>>}
    /\ last = [op |-> "init", threw |-> FALSE, result |-> << >>, saved |-> << >>,
               readable |-> TRUE]
    /\ StoreUntouched
    /\ maxItems = MaxCapacity
    /\ ProviderUntouched
    /\ episodes = << >>
    /\ currentIndex = -1
    /\ saveInterval = << >>
    /\ timers = {}
    /\ engine = NewEngine
    /\ pendingPlays = << >>
    /\ pendingLoads = 0
    /\ destroyed = FALSE
    /\ speedRaw = << >>
    /\ listeners = NoListeners

StateNext ==
    \/ \E state \in StateRecords, writable \in BOOLEAN : SaveState(state, writable)
    \/ \E readable \in BOOLEAN : LoadStateCall(readable)

StateSpec == StateInit /\ [][StateNext]_vars

\* C24: loadState() after saveState(r) returns exactly r, whatever records
\* were saved before r (each save replaces the whole record); loadState()
\* returns absent when nothing is stored or the stored text is corrupt; and
\* neither call throws.
C24_StateRoundTrip ==
    /\ ~last.threw
    /\ (last.op = "loadState" /\ last.readable) =>
           last.result = last.saved
    /\ (last.op = "loadState" /\ ~last.readable) => last.result = << >>

\* C24 witnesses: a saved record with a fractional volume was read back;
\* corrupt text was read as absent.
C24_Witness ==
    /\ last.op = "loadState"
    /\ last.readable
    /\ last.result = <<[currentEpisodeIndex |-> 2, volume |-> 50]>>

C24_WitnessCorrupt ==
    /\ last.op = "loadState"
    /\ last.readable
    /\ stateRaw = <<InvalidItem>>
    /\ last.result = << >>

----------------------------------------------------------------------------
\* AudioEngine on its own.  Times are whole seconds.  The engine record's
\* duration is audio.duration: << >> (NaN) from load until the metadata of
\* the source arrive, <<MediaEnd>> afterwards.

\* largest distance from 0 a position is followed to
MaxPosition == 120

SkipSeconds == 30
SkipAmounts == {<< >>, <<30>>, <<-30>>}
SeekTargets == {-10, 40, 200}
Percentages == {-50, 50, 150}
StartPositions == {<< >>, <<40>>}

\* get duration(): audio.duration || 0
EngineDuration(e) == IF e.duration = << >> THEN 0 ELSE e.duration[1]

Min(a, b) == IF a < b THEN a ELSE b
Max(a, b) == IF a > b THEN a ELSE b

\* audio.currentTime = t on the media element: before the metadata arrive
\* the element keeps t as its start position and reports it as currentTime;
\* afterwards it seeks, and a seek lands inside the media.
AudioSetCurrentTime(e, t) ==
    [e EXCEPT !.currentTime = IF e.duration = << >> THEN t
                              ELSE Max(0, Min(t, e.duration[1]))]

\* seconds ?? this.skipSeconds
SkipBy(seconds) == IF seconds = << >> THEN SkipSeconds ELSE seconds[1]

\* skipForward(seconds?)
SkippedForward(e, seconds) ==
    IF ~HasSrc(e) THEN e
    ELSE AudioSetCurrentTime(e, IF e.duration = << >>
                                THEN e.currentTime + SkipBy(seconds)
                                ELSE Min(e.currentTime + SkipBy(seconds), e.duration[1]))

\* skipBackward(seconds?)
SkippedBackward(e, seconds) ==
    IF ~HasSrc(e) THEN e
    ELSE AudioSetCurrentTime(e, Max(e.currentTime - SkipBy(seconds), 0))

\* seek(seconds)
Sought(e, seconds) ==
    IF ~HasSrc(e) THEN e
    ELSE AudioSetCurrentTime(e, Max(0, Min(seconds, EngineDuration(e))))

\* seekToPercentage(pct)
SoughtToPercentage(e, pct) ==
    IF ~HasSrc(e) \/ EngineDuration(e) = 0 THEN e
    ELSE AudioSetCurrentTime(e, (pct * e.duration[1]) \div 100)

EnginePlayFailed_KeepsPlaying(e) == e

\* play(), the catch branch
EnginePlayFailed(e) == [e EXCEPT !.isPlaying = FALSE]

\* play(), after the await
EnginePlayStarted(e) == [e EXCEPT !.isPlaying = TRUE]

InReach(e) == e.currentTime >= -MaxPosition /\ e.currentTime <= MaxPosition

EngineFrame ==
    UNCHANGED <<storeVars, providerVars, episodes, currentIndex, saveInterval, timers,
                stateRaw, speedRaw, pendingLoads, destroyed, listeners>>

EngineStep(op, e, threw, emitted) ==
    /\ InReach(e)
    /\ engine' = e
    /\ last' = [op |-> op, threw |-> threw, emitted |-> emitted]
    /\ EngineFrame

AudioLoad(url, startPosition) ==
    /\ EngineStep("load", EngineLoad(engine, url, startPosition), FALSE, << >>)
    /\ UNCHANGED pendingPlays

\* the element's loadedmetadata event: the duration is known and the start
\* position is sought
AudioLoadedMetadata ==
    /\ HasSrc(engine)
    /\ engine.duration = << >>
    /\ EngineStep("loadedmetadata",
                  AudioSetCurrentTime([engine EXCEPT !.duration = <<MediaEnd>>],
                                      engine.currentTime),
                  FALSE, <<"loaded-metadata">>)
    /\ UNCHANGED pendingPlays

SkipForward(seconds) ==
    /\ EngineStep("skipForward", SkippedForward(engine, seconds), FALSE, << >>)
    /\ UNCHANGED pendingPlays

SkipBackward(seconds) ==
    /\ EngineStep("skipBackward", SkippedBackward(engine, seconds), FALSE, << >>)
    /\ UNCHANGED pendingPlays

Seek(seconds) ==
    /\ EngineStep("seek", Sought(engine, seconds), FALSE, << >>)
    /\ UNCHANGED pendingPlays

SeekToPercentage(pct) ==
    /\ EngineStep("seekToPercentage", SoughtToPercentage(engine, pct), FALSE, << >>)
    /\ UNCHANGED pendingPlays

\* play() up to the await of audio.play()
AudioPlay ==
    /\ Len(pendingPlays) < MaxPendingPlays
    /\ pendingPlays' = Append(pendingPlays, "awaited")
    /\ EngineStep("enginePlay", engine, FALSE, << >>)

\* audio.play() resolves
AudioPlayResolves(i) ==
    /\ pendingPlays' = RemoveAt(pendingPlays, i)
    /\ EngineStep("enginePlayResolved", EnginePlayStarted(engine), FALSE, <<"play">>)

\* audio.play() rejects: the error is emitted and rethrown, nothing is retried
AudioPlayRejects(i) ==
    /\ pendingPlays' = RemoveAt(pendingPlays, i)
    /\ EngineStep("enginePlayRejected", EnginePlayFailed(engine), TRUE, <<"error">>)

AudioPause ==
    /\ EngineStep("enginePause", EnginePaused(engine), FALSE, <<"pause">>)
    /\ UNCHANGED pendingPlays

AudioStop ==
    /\ EngineStep("engineStop", AudioSetCurrentTime(EnginePaused(engine), 0),
                  FALSE, <<"stop">>)
    /\ UNCHANGED pendingPlays

\* the element's ended event
AudioEnded ==
    /\ engine.isPlaying
    /\ engine.duration # << >>
    /\ EngineStep("engineEnded",
                  [engine EXCEPT !.isPlaying = FALSE, !.currentTime = engine.duration[1]],
                  FALSE, <<"ended">>)
    /\ UNCHANGED pendingPlays

EngineInit ==
    /\ engine = NewEngine
    /\ pendingPlays = << >>
    /\ last = [op |-> "init", threw |-> FALSE, emitted |-> << >>]
    /\ StoreUntouched
    /\ maxItems = MaxCapacity
    /\ ProviderUntouched
    /\ episodes = << >>
    /\ currentIndex = -1
    /\ saveInterval = << >>
    /\ timers = {}
    /\ stateRaw = << >>
    /\ speedRaw = << >>
    /\ pendingLoads = 0
    /\ destroyed = FALSE
    /\ listeners = NoListeners

EngineNext ==
    \/ \E startPosition \in StartPositions : AudioLoad("a.mp3", startPosition)
    \/ AudioLoadedMetadata
    \/ \E seconds \in SkipAmounts : SkipForward(seconds)
    \/ \E seconds \in SkipAmounts : SkipBackward(seconds)
    \/ \E seconds \in SeekTargets : Seek(seconds)
    \/ \E pct \in Percentages : SeekToPercentage(pct)
    \/ AudioPlay
    \/ \E i \in 1..Len(pendingPlays) : AudioPlayResolves(i)
    \/ \E i \in 1..Len(pendingPlays) : AudioPlayRejects(i)
    \/ AudioPause
    \/ AudioStop
    \/ AudioEnded

EngineSpec == EngineInit /\ [][EngineNext]_vars

TransportOps == {"skipForward", "skipBackward", "seek", "seekToPercentage"}

\* C25: with a source loaded, after any skipForward, skipBackward, seek or
\* seekToPercentage call the engine's position p satisfies
\* 0 <= p <= duration; with no source loaded each of these calls leaves the
\* position unchanged.
C25_TransportKeepsPositionClamped ==
    [][last'.op \in TransportOps =>
          IF HasSrc(engine)
          THEN 0 <= engine'.currentTime /\ engine'.currentTime <= EngineDuration(engine')
          ELSE engine'.currentTime = engine.currentTime]_vars

\* C26: a play() whose playback start succeeds leaves isPlaying true and
\* emits one play event; one whose start is rejected leaves isPlaying false,
\* emits exactly one error event and no play event, rethrows, and starts no
\* further attempt; pause(), stop() and the ended event each leave isPlaying
\* false.
C26_EnginePlayOutcomes ==
    [][/\ last'.op = "enginePlayResolved" =>
             /\ engine'.isPlaying
             /\ last'.emitted = <<"play">>
             /\ ~last'.threw
       /\ last'.op = "enginePlayRejected" =>
             /\ ~engine'.isPlaying
             /\ last'.emitted = <<"error">>
             /\ last'.threw
             /\ Len(pendingPlays') = Len(pendingPlays) - 1
       /\ last'.op \in {"enginePause", "engineStop", "engineEnded"} =>
             ~engine'.isPlaying
      ]_vars

\* C26 witness: a play() was rejected while the engine was playing, and
\* the engine is no longer playing.
C26_Witness ==
    /\ last.op = "enginePlayRejected"
    /\ last.threw
    /\ ~engine.isPlaying
    /\ HasSrc(engine)

----------------------------------------------------------------------------
\* The controller with overlapping engine plays: two play requests may be
\* waiting for the engine at once, and the volume changes between loads.

MaxOverlappingPlays == 2

TimerInit ==
    /\ ControllerUntouched
    /\ speedRaw = << >>
    /\ StoreUntouched
    /\ maxItems = MaxCapacity
    /\ last = [op |-> "init", threw |-> FALSE]
    /\ ProviderUntouched

TimerNext ==
    \/ LoadEpisodes
    \/ \E list \in NonEmptyLists : ProviderResolves(list)
    \/ \E index \in Indexes, autoPlay \in BOOLEAN :
           LoadEpisodeWithin(index, autoPlay, MaxOverlappingPlays)
    \/ PlayWithin(MaxOverlappingPlays)
    \/ \E i \in 1..MaxOverlappingPlays : PlayResolves(i)
    \/ \E i \in 1..MaxOverlappingPlays : PlayRejects(i)
    \/ Pause
    \/ TimeChanges(MediaEnd)
    \/ Ended
    \/ Destroy
    \/ \E v \in Volumes : SetVolume(v)

TimerSpec == TimerInit /\ [][TimerNext]_vars

\* C28: across every interleaving of play(), playEpisode(), pause(),
\* loadEpisode(), engine ended events, destroy() and the completions of
\* overlapping engine play calls, at most one periodic save timer of the
\* controller is live.
C28_AtMostOneLiveTimer == Cardinality(timers) <= 1

\* C28 witness: a timer is live, one engine play has just resolved and
\* another one is still waiting.
C28_Witness ==
    /\ last.op = "playResolved"
    /\ Cardinality(timers) = 1
    /\ Len(pendingPlays) > 0

\* C29: whenever the controller holds a periodic-save interval handle, the
\* engine is playing and has a source loaded.
C29_TimerOnlyWhilePlaying ==
    saveInterval # << >> => (engine.isPlaying /\ HasSrc(engine))

----------------------------------------------------------------------------
\* EventEmitter on its own.  Handlers return normally and leave the emitter
\* alone.  last.subs is history: the (event, handler) pairs added with on and
\* not removed since, kept apart from the emitter's own map.

Range(seq) == {seq[i] : i \in 1..Len(seq)}

Removed_Nothing(seq, h) == seq

\* Set.delete(h)
Removed(seq, h) == SelectSeq(seq, LAMBDA g : g # h)

\* Set.add(h): a handler already in the set keeps its place
Added(seq, h) == IF h \in Range(seq) THEN seq ELSE Append(seq, h)

\* emit(event, data): the calls made, in order
Invocations(ls, event, data) ==
    [i \in 1..Len(ls[event]) |-> [handler |-> ls[event][i], data |-> data]]

EmitterFrame ==
    UNCHANGED <<storeVars, providerVars, episodes, currentIndex, saveInterval, timers,
                engine, stateRaw, speedRaw, pendingPlays, pendingLoads, destroyed>>

On(event, h) ==
    /\ listeners' = [listeners EXCEPT ![event] = Added(@, h)]
    /\ last' = [op |-> "on", threw |-> FALSE, event |-> event, handler |-> h, data |-> 0,
                calls |-> << >>, subs |-> last.subs \cup {<<event, h>>}]
    /\ EmitterFrame

Off(event, h) ==
    /\ listeners' = [listeners EXCEPT ![event] = Removed(@, h)]
    /\ last' = [op |-> "off", threw |-> FALSE, event |-> event, handler |-> h, data |-> 0,
                calls |-> << >>, subs |-> last.subs \ {<<event, h>>}]
    /\ EmitterFrame

Emit(event, data) ==
    /\ last' = [op |-> "emit", threw |-> FALSE, event |-> event, handler |-> "",
                data |-> data,
                calls |-> Invocations(listeners, event, data), subs |-> last.subs]
    /\ UNCHANGED listeners
    /\ EmitterFrame

RemoveAllListeners ==
    /\ listeners' = NoListeners
    /\ last' = [op |-> "removeAllListeners", threw |-> FALSE, event |-> "",
                handler |-> "", data |-> 0, calls |-> << >>, subs |-> {}]
    /\ EmitterFrame

EmitterInit ==
    /\ ControllerUntouched
    /\ speedRaw = << >>
    /\ StoreUntouched
    /\ maxItems = MaxCapacity
    /\ ProviderUntouched
    /\ last = [op |-> "init", threw |-> FALSE, event |-> "", handler |-> "", data |-> 0,
               calls |-> << >>, subs |-> {}]

EmitterNext ==
    \/ \E event \in EventNames, h \in Handlers : On(event, h)
    \/ \E event \in EventNames, h \in Handlers : Off(event, h)
    \/ \E event \in EventNames, data \in Payloads : Emit(event, data)
    \/ RemoveAllListeners

EmitterSpec == EmitterInit /\ [][EmitterNext]_vars

\* how often emit called h with data
TimesCalled(made, h, data) ==
    Cardinality({i \in 1..Len(made) : made[i] = [handler |-> h, data |-> data]})

\* C27: emit(e, data) calls every handler subscribed to e at that moment
\* exactly once with data and calls nothing else (no handler of another
\* event, none removed with off, none subscribed before removeAllListeners);
\* emit with no subscribers and off of a handler that was never added change
\* nothing; none of them throws.
C27_EmitCallsExactlyTheSubscribed ==
    [][/\ last'.op = "emit" =>
             /\ \A h \in Handlers, data \in Payloads :
                   TimesCalled(last'.calls, h, data) =
                       (IF <<last'.event, h>> \in last.subs /\ data = last'.data
                        THEN 1 ELSE 0)
             /\ Len(last'.calls) =
                   Cardinality({h \in Handlers : <<last'.event, h>> \in last.subs})
             /\ UNCHANGED listeners
             /\ ~last'.threw
       /\ (last'.op = "off" /\ <<last'.event, last'.handler>> \notin last.subs) =>
             /\ UNCHANGED listeners
             /\ ~last'.threw
      ]_vars

\* C27 witness: an emit has called the one handler of its event while the
\* other event has a handler of its own.
C27_Witness ==
    /\ last.op = "emit"
    /\ Len(last.calls) = 1
    /\ \E event \in EventNames : event # last.event /\ listeners[event] # << >>
    /\ Cardinality(last.subs) = 2

----------------------------------------------------------------------------
(* Claims about eviction, overlapping fetches and the controller's lifetime *)

\* C31: eviction follows the order of first insertion: a save of an
\* identifier that is already stored replaces its offset, evicts nothing and
\* does not make the entry newer; a save that takes the store over its
\* maximum evicts the entries whose identifiers were first inserted
\* earliest, also when they were the most recently re-saved.
C31_EvictionByFirstInsertion ==
    [][(last'.op = "savePosition" /\ last'.wrote) =>
          LET o == WithInserted(last.order, last'.id)
          IN  /\ GetPosition(positionsRaw', last'.id) = <<last'.position>>
              /\ HasKey(GetPositions(positionsRaw), last'.id) => last'.evicted = 0
              /\ \A i \in 1..Len(o) :
                    (GetPosition(positionsRaw', o[i]) = << >>) <=> (i <= last'.evicted)
      ]_vars

\* C32: a getEpisodes call that starts while the cache is not fresh begins
\* its own fetch whatever the other calls are doing; a call that is waiting
\* for a fetch can always go on, and its steps leave the other calls alone;
\* a failed first attempt is followed by the second also when another call
\* has made the cache fresh meanwhile; every sequence makes one or two
\* requests.
C32_NoFetchDeduplication ==
    /\ [](\A c \in CallIds :
            calls[c].pc = "fetching" =>
                /\ calls[c].requests \in {1, 2}
                /\ ENABLED (\E response \in Responses : FetchSettles(c, response)))
    /\ [][/\ (last'.op = "getEpisodes" /\ ReadCache(cacheRaw, now, FALSE) = << >>) =>
              /\ calls'[last'.call].pc = "fetching"
              /\ calls'[last'.call].requests = 1
              /\ \A d \in CallIds \ {last'.call} : calls'[d] = calls[d]
        /\ last'.op = "fetchSettled" =>
              /\ \A d \in CallIds \ {last'.call} : calls'[d] = calls[d]
              /\ (FailedAttempt(last'.response) /\ calls[last'.call].attempt = 0) =>
                    /\ calls'[last'.call].pc = "fetching"
                    /\ calls'[last'.call].requests = 2
              /\ calls'[last'.call].pc = "fetching" \/ Finished(calls'[last'.call])
       ]_vars

\* C32 witness: one call has fetched the list and made the cache fresh
\* while the other call, begun before that, is on its second request.
C32_Witness ==
    \E c, d \in CallIds :
        /\ calls[c].pc = "returned"
        /\ calls[c].requests >= 1
        /\ ReadCache(cacheRaw, now, FALSE) # << >>
        /\ calls[d].pc = "fetching"
        /\ calls[d].requests = 2

\* C33: the controller's current index is -1 or an index of the current
\* list, whatever loadEpisodes, loadEpisode, playEpisode and play calls were
\* made.
C33_IndexValid == currentIndex = -1 \/ InRange(episodes, currentIndex)

\* C34: once destroy() has returned no periodic save timer of the
\* controller is live, also when an engine play requested before destroy()
\* resolves after it.
C34_NoTimerAfterDestroy == destroyed => timers = {}

\* C35: once destroy() has returned, an engine pause event or ended event
\* leaves the Resume-Position Store as it is.
C35_NoStoreAccessAfterDestroy ==
    [][(destroyed /\ last'.op \in {"enginePause", "ended"}) =>
          positionsRaw' = positionsRaw]_vars

\* C36: right after an item has ended and its resume position was removed,
\* with the engine still at the end offset, an engine pause event, the
\* unload signal or destroy() stores no position for the finished item,
\* whether or not the item has a duration.
C36_EndedPositionStaysAbsent ==
    [][(/\ last.op = "ended"
        /\ ~last.threw
        /\ InRange(episodes, currentIndex)
        /\ last'.op \in {"pause", "enginePause", "beforeunload", "destroy"}) =>
          GetPosition(positionsRaw', EpisodeAt(episodes, currentIndex).id) = << >>]_vars

----------------------------------------------------------------------------
\* The controller with overlapping loadEpisodes calls: two calls may be
\* waiting for the provider at once and resolve in either order, with any
\* of the lists, while positions are saved by the timer, pause, the unload
\* signal and destroy.

MaxOverlappingLoads == 2

ReloadInit ==
    /\ ControllerUntouched
    /\ speedRaw = << >>
    /\ StoreUntouched
    /\ maxItems = MaxCapacity
    /\ last = [op |-> "init", threw |-> FALSE]
    /\ ProviderUntouched

ReloadNext ==
    \/ LoadEpisodesWithin(MaxOverlappingLoads)
    \/ \E list \in EpisodeLists : ProviderResolves(list)
    \/ \E index \in Indexes, autoPlay \in BOOLEAN : LoadEpisode(index, autoPlay)
    \/ Play
    \/ \E i \in 1..MaxPendingPlays : PlayResolves(i)
    \/ Pause
    \/ \E t \in PlayTimes : TimeChanges(t)
    \/ \E h \in TimerHandles : TimerFires(h)
    \/ Ended
    \/ BeforeUnload
    \/ Destroy

ReloadSpec == ReloadInit /\ [][ReloadNext]_vars

\* the identifiers of a list
ListIds(list) == {list[i].id : i \in 1..Len(list)}

\* C37: every identifier in the Resume-Position Store belongs to the
\* controller's current item list: after every loadEpisodes completion
\* (overlapping ones in any order and empty results included) and after
\* every save made by a timer tick, pause, the unload signal or destroy.
C37_StoredIdsBelongToList ==
    KeySet(GetPositions(positionsRaw)) \subseteq ListIds(episodes)

\* C37 witness: of two overlapping loadEpisodes calls one has resolved with
\* an empty list, which emptied a store that held a position, while the
\* other is still waiting.
C37_Witness ==
    /\ last.op = "loadEpisodesResolved"
    /\ episodes = << >>
    /\ positionsRaw.kind = "object"
    /\ GetPositions(positionsRaw) = << >>
    /\ pendingLoads = 1

\* C38: whenever a timer tick, pause, the unload signal or destroy stores a
\* position, the identifier it is stored under is that of an item of the
\* list whose media URL is the one loaded in the engine, and the position is
\* the engine's offset.
C38_PositionStoredUnderLoadedItem ==
    [][last'.op \in {"timerTick", "pause", "beforeunload", "destroy"} =>
          \A id \in EpisodeIds :
              (/\ GetPosition(positionsRaw', id) # << >>
               /\ GetPosition(positionsRaw', id) # GetPosition(positionsRaw, id)) =>
                  /\ GetPosition(positionsRaw', id) = <<engine.currentTime>>
                  /\ \E i \in 1..Len(episodes) :
                        /\ episodes[i].id = id
                        /\ engine.src = <<episodes[i].audioUrl>>
                        /\ i = currentIndex + 1
      ]_vars

\* C38 witness: with the timer live and a position of another item already
\* stored, a tick has stored the offset of the item now loaded.
C38_Witness ==
    /\ last.op = "timerTick"
    /\ timers # {}
    /\ Len(GetPositions(positionsRaw)) = 2
    /\ InRange(episodes, currentIndex)
    /\ GetPosition(positionsRaw, EpisodeAt(episodes, currentIndex).id) = <<engine.currentTime>>
    /\ last.before # positionsRaw

\* C39: the cache entry changes only in a step in which a fetch succeeded
\* with a non-empty list, and then to that list with the current time:
\* failed attempts, empty results, fast-path hits and stale fallbacks leave
\* the list and the timestamp as they were, so an entry served as a stale
\* fallback is as old afterwards as before.
C39_CacheWrittenOnlyByNonEmptySuccess ==
    [][/\ cacheRaw' # cacheRaw =>
             /\ last'.op = "fetchSettled"
             /\ ~FailedAttempt(last'.response)
             /\ last'.response.episodes # << >>
             /\ cacheRaw' = [kind |-> "entry", episodes |-> last'.response.episodes,
                             timestamp |-> now]
       /\ (last'.op = "fetchSettled"
             /\ (FailedAttempt(last'.response) \/ last'.response.episodes = << >>)) =>
             cacheRaw' = cacheRaw
       /\ last'.op = "getEpisodes" => cacheRaw' = cacheRaw
      ]_vars

\* C39 witness: a stale entry was served after two failed attempts and is
\* still expired.
C39_Witness ==
    /\ BothAttemptsFailed
    /\ calls[last.call].pc = "returned"
    /\ cacheRaw = last.cacheBefore
    /\ cacheRaw.kind = "entry"
    /\ calls[last.call].result = cacheRaw.episodes
    /\ now - cacheRaw.timestamp >= CacheTTL
    /\ ReadCache(cacheRaw, now, FALSE) = << >>

\* C40: a getEpisodes call rejects only when its second attempt has failed
\* and no entry with a non-empty list is in the cache at that moment; when
\* an entry is there, also one that another call wrote after this call
\* had started, the call returns that entry's list.
C40_RejectsOnlyWithoutCache ==
    [][last'.op = "fetchSettled" =>
          LET before == calls[last'.call]
              after == calls'[last'.call]
              usable == cacheRaw.kind = "entry" /\ cacheRaw.episodes # << >>
          IN  /\ after.pc = "rejected" =>
                    /\ before.attempt = 1
                    /\ FailedAttempt(last'.response)
                    /\ ~usable
              /\ (before.attempt = 1 /\ FailedAttempt(last'.response) /\ usable) =>
                    /\ after.pc = "returned"
                    /\ after.result = cacheRaw.episodes
      ]_vars

\* C40 witness: the second attempt of a call has just failed and the call
\* returned the list another call had cached in the meantime (the entry is
\* of this very instant, so it was not there when the call started).
C40_Witness ==
    /\ BothAttemptsFailed
    /\ calls[last.call].pc = "returned"
    /\ cacheRaw.kind = "entry"
    /\ cacheRaw.timestamp = now
    /\ calls[last.call].result = cacheRaw.episodes
    /\ \E d \in CallIds \ {last.call} :
          calls[d].pc = "returned" /\ calls[d].requests >= 1

=============================================================================
